---- MODULE Spec2Model ----
(***************************************************************************)
(* A model of the NS (Dutch railways) MCP server: the argument validators  *)
(* of types.ts, the upstream client NSApiService, the ResponseFormatter    *)
(* and the call-tool handlers of the two servers the repository holds,     *)
(* NSServer (services + formatter) and the earlier DisruptionsServer.      *)
(***************************************************************************)
EXTENDS Integers, Sequences, FiniteSets, TLC

\* ------------------------------------------------------------------ bounds

\* Number of call slots (requests the transport has handed to the handler).
MaxCalls == 2
\* Largest number of fields a caller's argument bag defines.
MaxArgs == 2
\* Longest flat array / object drawn as a formatSuccess input.
MaxLen == 2
\* Number of times a drawn formatSuccess input is wrapped in an array or object.
MaxDepth == 1
\* Number of interrupt signals the process receives.
MaxSigints == 2
\* Calls of Config.getInstance in one process.
MaxGets == 4

\* ------------------------------------------------------- JavaScript values

\* A JavaScript value of an argument field: its kind and the payload of
\* that kind (the other payload fields hold a fixed filler).
JSVal(k, s, n, b) == [kind |-> k, str |-> s, num |-> n, bool |-> b]
Undef == JSVal("undefined", "", 0, FALSE)
Null == JSVal("null", "", 0, FALSE)
S(s) == JSVal("string", s, 0, FALSE)
N(n) == JSVal("number", "", n, FALSE)
B(b) == JSVal("boolean", "", 0, b)

\* typeof v
TypeOf(v) == IF v.kind = "null" THEN "object" ELSE v.kind

\* ToBoolean(v): what `!v`, `v || w` test.
Truthy(v) ==
  CASE v.kind = "string" -> v.str # ""
    [] v.kind = "number" -> v.num # 0
    [] v.kind = "boolean" -> v.bool
    [] OTHER -> FALSE

Digit(d) ==
  CASE d = 0 -> "0" [] d = 1 -> "1" [] d = 2 -> "2" [] d = 3 -> "3" [] d = 4 -> "4"
    [] d = 5 -> "5" [] d = 6 -> "6" [] d = 7 -> "7" [] d = 8 -> "8" [] d = 9 -> "9"

\* The decimal digits of a natural number, most significant first.
RECURSIVE NatDigits(_)
NatDigits(n) == IF n < 10 THEN <<Digit(n)>> ELSE Append(NatDigits(n \div 10), Digit(n % 10))

RECURSIVE Join(_)
Join(cs) == IF cs = <<>> THEN "" ELSE Head(cs) \o Join(Tail(cs))

\* Number::toString for the integers of the model.
NumToString(n) == IF n < 0 THEN "-" \o Join(NatDigits(-n)) ELSE Join(NatDigits(n))

\* String(v)
ToStr(v) ==
  CASE v.kind = "string" -> v.str
    [] v.kind = "number" -> NumToString(v.num)
    [] v.kind = "boolean" -> IF v.bool THEN "true" ELSE "false"
    [] v.kind = "null" -> "null"
    [] OTHER -> "undefined"

\* String.prototype.toLowerCase on the strings of the model that hold capitals.
ToLowerCase(s) ==
  CASE s = "TRUE" -> "true"
    [] s = "True" -> "true"
    [] s = "GET_DISRUPTIONS" -> "get_disruptions"
    [] s = "EN" -> "en"
    [] s = "MAINTENANCE" -> "maintenance"
    [] s = "DISRUPTION" -> "disruption"
    [] s = "ASD" -> "asd"
    [] s = "UT" -> "ut"
    [] s = "Utrecht" -> "utrecht"
    [] OTHER -> s

\* ---------------------------------------------------------- argument bags

\* Every field name a caller may put in an argument bag ("extra" stands for
\* any field no tool declares).
Fields ==
  {"isActive", "type", "fromStation", "toStation", "dateTime", "searchForArrival",
   "station", "uicCode", "maxJourneys", "lang", "stationCode", "query",
   "includeNonPlannableStations", "limit", "extra"}

\* The bag {}: reading any field gives undefined.
EmptyBag == [f \in Fields |-> Undef]

\* A value handed to a validator: an object (with its fields), or an array,
\* null or a primitive (reading a field of an array or a primitive gives
\* undefined; reading a field of null or undefined throws).
ArgObject(bag) == [kind |-> "object", flds |-> bag]
ArgOther(k) == [kind |-> k, flds |-> EmptyBag]

\* typeof args
ArgTypeOf(a) == IF a.kind \in {"object", "array", "null"} THEN "object" ELSE a.kind

\* !args
ArgFalsy(a) == a.kind \in {"null", "undefined"}

\* ------------------------------------------------------------- validators

\* A strict validator: it also rejects a bag with a key it does not know.
isValidDisruptionsArgsStrict(args) ==
  IF ArgFalsy(args) \/ ArgTypeOf(args) # "object" THEN FALSE
  ELSE LET typedArgs == args.flds IN
    IF typedArgs["extra"] # Undef THEN FALSE
    ELSE IF typedArgs["isActive"] # Undef /\ TypeOf(typedArgs["isActive"]) # "boolean" THEN FALSE
    ELSE IF typedArgs["type"] # Undef
            /\ (TypeOf(typedArgs["type"]) # "string"
                \/ typedArgs["type"].str \notin {"MAINTENANCE", "DISRUPTION"}) THEN FALSE
    ELSE TRUE

isValidDisruptionsArgs(args) ==
  IF ArgFalsy(args) \/ ArgTypeOf(args) # "object" THEN FALSE
  ELSE LET typedArgs == args.flds IN
    IF typedArgs["isActive"] # Undef /\ TypeOf(typedArgs["isActive"]) # "boolean" THEN FALSE
    ELSE IF typedArgs["type"] # Undef
            /\ (TypeOf(typedArgs["type"]) # "string"
                \/ typedArgs["type"].str \notin {"MAINTENANCE", "DISRUPTION"}) THEN FALSE
    ELSE TRUE

isValidTravelAdviceArgs(args) ==
  IF ArgFalsy(args) \/ ArgTypeOf(args) # "object" THEN FALSE
  ELSE LET typedArgs == args.flds IN
    IF TypeOf(typedArgs["fromStation"]) # "string" \/ TypeOf(typedArgs["toStation"]) # "string"
    THEN FALSE
    ELSE IF typedArgs["dateTime"] # Undef /\ TypeOf(typedArgs["dateTime"]) # "string" THEN FALSE
    ELSE IF typedArgs["searchForArrival"] # Undef
            /\ TypeOf(typedArgs["searchForArrival"]) # "boolean" THEN FALSE
    ELSE TRUE

isValidDeparturesArgs(args) ==
  IF ArgFalsy(args) \/ ArgTypeOf(args) # "object" THEN FALSE
  ELSE LET typedArgs == args.flds IN
    IF TypeOf(typedArgs["station"]) # "string" THEN FALSE
    ELSE IF typedArgs["dateTime"] # Undef /\ TypeOf(typedArgs["dateTime"]) # "string" THEN FALSE
    ELSE IF typedArgs["maxJourneys"] # Undef /\ TypeOf(typedArgs["maxJourneys"]) # "number"
    THEN FALSE
    ELSE IF typedArgs["lang"] # Undef /\ TypeOf(typedArgs["lang"]) # "string" THEN FALSE
    ELSE TRUE

isValidOVFietsArgs(args) ==
  IF ArgFalsy(args) \/ ArgTypeOf(args) # "object" THEN FALSE
  ELSE TypeOf(args.flds["stationCode"]) = "string"

\* isValidStationInfoArgs reads args.query right after `typeof args ===
\* 'object'`, which null passes: the read throws a TypeError.
isValidStationInfoArgsThrows(args) == args.kind = "null"

isValidStationInfoArgs(args) ==
  /\ ArgTypeOf(args) = "object"
  /\ TypeOf(args.flds["query"]) = "string"
  /\ (args.flds["includeNonPlannableStations"] = Undef
      \/ TypeOf(args.flds["includeNonPlannableStations"]) = "boolean")
  /\ (args.flds["limit"] = Undef
      \/ (TypeOf(args.flds["limit"]) = "number"
          /\ args.flds["limit"].num >= 1 /\ args.flds["limit"].num <= 50))

\* The either-or rule decided by presence:
\* typedArgs.station === undefined && typedArgs.uicCode === undefined.
isValidArrivalsArgsByPresence(args) ==
  IF ArgFalsy(args) \/ ArgTypeOf(args) # "object" THEN FALSE
  ELSE LET typedArgs == args.flds IN
    IF typedArgs["station"] = Undef /\ typedArgs["uicCode"] = Undef THEN FALSE
    ELSE IF typedArgs["station"] # Undef /\ TypeOf(typedArgs["station"]) # "string" THEN FALSE
    ELSE IF typedArgs["uicCode"] # Undef /\ TypeOf(typedArgs["uicCode"]) # "string" THEN FALSE
    ELSE IF typedArgs["dateTime"] # Undef /\ TypeOf(typedArgs["dateTime"]) # "string" THEN FALSE
    ELSE IF typedArgs["maxJourneys"] # Undef
            /\ (TypeOf(typedArgs["maxJourneys"]) # "number"
                \/ typedArgs["maxJourneys"].num < 1
                \/ typedArgs["maxJourneys"].num > 100) THEN FALSE
    ELSE IF typedArgs["lang"] # Undef
            /\ (TypeOf(typedArgs["lang"]) # "string"
                \/ typedArgs["lang"].str \notin {"nl", "en"}) THEN FALSE
    ELSE TRUE

isValidArrivalsArgs(args) ==
  IF ArgFalsy(args) \/ ArgTypeOf(args) # "object" THEN FALSE
  ELSE LET typedArgs == args.flds IN
    IF ~Truthy(typedArgs["station"]) /\ ~Truthy(typedArgs["uicCode"]) THEN FALSE
    ELSE IF typedArgs["station"] # Undef /\ TypeOf(typedArgs["station"]) # "string" THEN FALSE
    ELSE IF typedArgs["uicCode"] # Undef /\ TypeOf(typedArgs["uicCode"]) # "string" THEN FALSE
    ELSE IF typedArgs["dateTime"] # Undef /\ TypeOf(typedArgs["dateTime"]) # "string" THEN FALSE
    ELSE IF typedArgs["maxJourneys"] # Undef
            /\ (TypeOf(typedArgs["maxJourneys"]) # "number"
                \/ typedArgs["maxJourneys"].num < 1
                \/ typedArgs["maxJourneys"].num > 100) THEN FALSE
    ELSE IF typedArgs["lang"] # Undef
            /\ (TypeOf(typedArgs["lang"]) # "string"
                \/ typedArgs["lang"].str \notin {"nl", "en"}) THEN FALSE
    ELSE TRUE

\* ------------------------------------------------------------ JSON values

\* A JSON-compatible value.  Strings (and object keys) are sequences of
\* chunks: a chunk is one character that JSON escapes (the quote, the
\* backslash, the newline) or a run of characters that it copies unchanged.
\* An object is the ordered sequence of its <<key, value>> members.
JSONValue(j, b, n, s, es, ms) ==
  [j |-> j, b |-> b, n |-> n, s |-> s, elems |-> es, members |-> ms]
JNull == JSONValue("null", FALSE, 0, <<>>, <<>>, <<>>)
JBool(b) == JSONValue("bool", b, 0, <<>>, <<>>, <<>>)
JNum(n) == JSONValue("num", FALSE, n, <<>>, <<>>, <<>>)
JStr(cs) == JSONValue("str", FALSE, 0, cs, <<>>, <<>>)
JArr(es) == JSONValue("arr", FALSE, 0, <<>>, es, <<>>)
JObj(ms) == JSONValue("obj", FALSE, 0, <<>>, <<>>, ms)

\* The value a property lookup o[key] gives (JNull when there is none).
RECURSIVE Member(_, _)
Member(ms, key) ==
  IF ms = <<>> THEN JNull
  ELSE IF Head(ms)[1] = key THEN Head(ms)[2] ELSE Member(Tail(ms), key)

HasMember(o, key) == o.j = "obj" /\ \E i \in DOMAIN o.members : o.members[i][1] = key

\* Deep equality of JSON values: arrays element by element, objects by key
\* whatever the order of their members.
RECURSIVE DeepEqual(_, _)
DeepEqual(x, y) ==
  /\ x.j = y.j
  /\ CASE x.j = "arr" ->
            /\ Len(x.elems) = Len(y.elems)
            /\ \A i \in DOMAIN x.elems : DeepEqual(x.elems[i], y.elems[i])
       [] x.j = "obj" ->
            /\ Len(x.members) = Len(y.members)
            /\ \A i \in DOMAIN x.members :
                 /\ HasMember(y, x.members[i][1])
                 /\ DeepEqual(x.members[i][2], Member(y.members, x.members[i][1]))
       [] OTHER -> x = y

\* -------------------------------------------------- JSON.stringify / parse

Spaces(n) == [i \in 1..n |-> " "]

\* QuoteJSONString: the escapes of one chunk.
EscapeChunk(c) ==
  CASE c = "\"" -> <<"\\", "\"">>
    [] c = "\\" -> <<"\\", "\\">>
    [] c = "\n" -> <<"\\", "n">>
    [] OTHER -> <<c>>

RECURSIVE EscapeChunks(_)
EscapeChunks(cs) == IF cs = <<>> THEN <<>> ELSE EscapeChunk(Head(cs)) \o EscapeChunks(Tail(cs))

QuoteJSONString(cs) == <<"\"">> \o EscapeChunks(cs) \o <<"\"">>

NumberChunks(n) == IF n < 0 THEN <<"-">> \o NatDigits(-n) ELSE NatDigits(n)

\* SerializeJSONProperty of ECMAScript, for JSON.stringify(value, null, gap):
\* the text as a sequence of chunks, `indent` spaces deep.
RECURSIVE SerializeJSON(_, _, _)
RECURSIVE SerializeElems(_, _, _)
RECURSIVE SerializeMembers(_, _, _)
SerializeElems(es, indent, gap) ==
  IF es = <<>> THEN <<>>
  ELSE (IF gap > 0 THEN <<"\n">> \o Spaces(indent) ELSE <<>>)
       \o SerializeJSON(Head(es), indent, gap)
       \o (IF Tail(es) = <<>> THEN <<>> ELSE <<",">>)
       \o SerializeElems(Tail(es), indent, gap)
SerializeMembers(ms, indent, gap) ==
  IF ms = <<>> THEN <<>>
  ELSE (IF gap > 0 THEN <<"\n">> \o Spaces(indent) ELSE <<>>)
       \o QuoteJSONString(Head(ms)[1]) \o <<":">> \o (IF gap > 0 THEN <<" ">> ELSE <<>>)
       \o SerializeJSON(Head(ms)[2], indent, gap)
       \o (IF Tail(ms) = <<>> THEN <<>> ELSE <<",">>)
       \o SerializeMembers(Tail(ms), indent, gap)
SerializeJSON(v, indent, gap) ==
  CASE v.j = "null" -> <<"null">>
    [] v.j = "bool" -> <<IF v.b THEN "true" ELSE "false">>
    [] v.j = "num" -> NumberChunks(v.n)
    [] v.j = "str" -> QuoteJSONString(v.s)
    [] v.j = "arr" ->
         IF v.elems = <<>> THEN <<"[", "]">>
         ELSE <<"[">> \o SerializeElems(v.elems, indent + gap, gap)
              \o (IF gap > 0 THEN <<"\n">> \o Spaces(indent) ELSE <<>>) \o <<"]">>
    [] v.j = "obj" ->
         IF v.members = <<>> THEN <<"{", "}">>
         ELSE <<"{">> \o SerializeMembers(v.members, indent + gap, gap)
              \o (IF gap > 0 THEN <<"\n">> \o Spaces(indent) ELSE <<>>) \o <<"}">>

\* JSON.stringify(value, null, gap)
JSONstringify(v, gap) == SerializeJSON(v, 0, gap)

\* The result of a parsing step: the value read and the position after it.
ParseOk(v, i) == [ok |-> TRUE, v |-> v, s |-> <<>>, i |-> i]
ParseStr(cs, i) == [ok |-> TRUE, v |-> JNull, s |-> cs, i |-> i]
ParseFail == [ok |-> FALSE, v |-> JNull, s |-> <<>>, i |-> 0]

IsDigit(c) == c \in {"0", "1", "2", "3", "4", "5", "6", "7", "8", "9"}
DigitValue(c) == CHOOSE d \in 0..9 : Digit(d) = c

RECURSIVE SkipWhitespace(_, _)
SkipWhitespace(t, i) ==
  IF i <= Len(t) /\ t[i] \in {" ", "\n"} THEN SkipWhitespace(t, i + 1) ELSE i

\* The characters of a string literal after its opening quote.
RECURSIVE ParseChars(_, _, _)
ParseChars(t, i, acc) ==
  IF i > Len(t) THEN ParseFail
  ELSE IF t[i] = "\"" THEN ParseStr(acc, i + 1)
  ELSE IF t[i] = "\n" THEN ParseFail
  ELSE IF t[i] = "\\" THEN
    IF i + 1 > Len(t) THEN ParseFail
    ELSE IF t[i + 1] = "\"" THEN ParseChars(t, i + 2, Append(acc, "\""))
    ELSE IF t[i + 1] = "\\" THEN ParseChars(t, i + 2, Append(acc, "\\"))
    ELSE IF t[i + 1] = "n" THEN ParseChars(t, i + 2, Append(acc, "\n"))
    ELSE ParseFail
  ELSE ParseChars(t, i + 1, Append(acc, t[i]))

ParseString(t, i) ==
  IF i <= Len(t) /\ t[i] = "\"" THEN ParseChars(t, i + 1, <<>>) ELSE ParseFail

RECURSIVE ParseDigits(_, _, _)
ParseDigits(t, i, acc) ==
  IF i <= Len(t) /\ IsDigit(t[i]) THEN ParseDigits(t, i + 1, 10 * acc + DigitValue(t[i]))
  ELSE ParseOk(JNum(acc), i)

ParseNumber(t, i) ==
  IF i <= Len(t) /\ t[i] = "-" THEN
    IF i + 1 <= Len(t) /\ IsDigit(t[i + 1])
    THEN LET r == ParseDigits(t, i + 1, 0) IN ParseOk(JNum(-r.v.n), r.i)
    ELSE ParseFail
  ELSE IF i <= Len(t) /\ IsDigit(t[i]) THEN ParseDigits(t, i, 0)
  ELSE ParseFail

\* The recursive-descent reading of one JSON value at position i.
RECURSIVE ParseValue(_, _)
RECURSIVE ParseElems(_, _, _)
RECURSIVE ParseMembers(_, _, _)
ParseElems(t, i, acc) ==
  LET r == ParseValue(t, i) IN
  IF ~r.ok THEN ParseFail
  ELSE LET k == SkipWhitespace(t, r.i) IN
    IF k > Len(t) THEN ParseFail
    ELSE IF t[k] = "," THEN ParseElems(t, k + 1, Append(acc, r.v))
    ELSE IF t[k] = "]" THEN ParseOk(JArr(Append(acc, r.v)), k + 1)
    ELSE ParseFail
ParseMembers(t, i, acc) ==
  LET key == ParseString(t, SkipWhitespace(t, i)) IN
  IF ~key.ok THEN ParseFail
  ELSE LET c == SkipWhitespace(t, key.i) IN
    IF c > Len(t) \/ t[c] # ":" THEN ParseFail
    ELSE LET r == ParseValue(t, c + 1) IN
      IF ~r.ok THEN ParseFail
      ELSE LET k == SkipWhitespace(t, r.i) IN
        IF k > Len(t) THEN ParseFail
        ELSE IF t[k] = "," THEN ParseMembers(t, k + 1, Append(acc, <<key.s, r.v>>))
        ELSE IF t[k] = "}" THEN ParseOk(JObj(Append(acc, <<key.s, r.v>>)), k + 1)
        ELSE ParseFail
ParseValue(t, i0) ==
  LET i == SkipWhitespace(t, i0) IN
  IF i > Len(t) THEN ParseFail
  ELSE IF t[i] = "null" THEN ParseOk(JNull, i + 1)
  ELSE IF t[i] = "true" THEN ParseOk(JBool(TRUE), i + 1)
  ELSE IF t[i] = "false" THEN ParseOk(JBool(FALSE), i + 1)
  ELSE IF t[i] = "\"" THEN LET r == ParseString(t, i) IN
                           IF r.ok THEN ParseOk(JStr(r.s), r.i) ELSE ParseFail
  ELSE IF t[i] = "[" THEN
    LET k == SkipWhitespace(t, i + 1) IN
    IF k <= Len(t) /\ t[k] = "]" THEN ParseOk(JArr(<<>>), k + 1) ELSE ParseElems(t, i + 1, <<>>)
  ELSE IF t[i] = "{" THEN
    LET k == SkipWhitespace(t, i + 1) IN
    IF k <= Len(t) /\ t[k] = "}" THEN ParseOk(JObj(<<>>), k + 1) ELSE ParseMembers(t, i + 1, <<>>)
  ELSE ParseNumber(t, i)

\* JSON.parse(text): the value, or a SyntaxError.
JSONparse(t) ==
  LET r == ParseValue(t, 1) IN
  IF r.ok /\ SkipWhitespace(t, r.i) = Len(t) + 1
  THEN [result |-> "value", v |-> r.v]
  ELSE [result |-> "SyntaxError", v |-> JNull]

\* --------------------------------------------------------- upstream client

\* Every query parameter name an upstream request may carry.
ParamNames ==
  {"isActive", "type", "fromStation", "toStation", "dateTime", "searchForArrival",
   "station", "uicCode", "maxJourneys", "lang", "station_code", "q",
   "includeNonPlannableStations", "limit"}

NoParams == [p \in ParamNames |-> Undef]

\* NSApiService.ENDPOINTS (the paths under BASE_URL)
ENDPOINTS ==
  [DISRUPTIONS |-> "/disruptions/v3",
   TRIPS |-> "/reisinformatie-api/api/v3/trips",
   DEPARTURES |-> "/reisinformatie-api/api/v2/departures",
   ARRIVALS |-> "/reisinformatie-api/api/v2/arrivals",
   PRICES |-> "/reisinformatie-api/api/v3/price",
   OVFIETS |-> "/places-api/v2/ovfiets",
   STATIONS |-> "/nsapp-stations/v3"]

\* One axiosInstance.get(path, {params}): a parameter that is undefined is
\* not sent.
Request(path, params) == [path |-> path, params |-> params]
NoRequest == Request("", NoParams)

\* a ?? b
Coalesce(a, b) == IF a.kind \in {"undefined", "null"} THEN b ELSE a

\* The request each method of NSApiService issues for its (validated) args.
getDisruptions(args) ==
  Request(ENDPOINTS.DISRUPTIONS,
          [NoParams EXCEPT !["isActive"] = args["isActive"], !["type"] = args["type"]])

getTravelAdvice(args) ==
  Request(ENDPOINTS.TRIPS,
          [NoParams EXCEPT !["fromStation"] = args["fromStation"],
                           !["toStation"] = args["toStation"],
                           !["dateTime"] = args["dateTime"],
                           !["searchForArrival"] = args["searchForArrival"]])

getDepartures(args) ==
  Request(ENDPOINTS.DEPARTURES,
          [NoParams EXCEPT !["station"] = args["station"],
                           !["dateTime"] = args["dateTime"],
                           !["maxJourneys"] = args["maxJourneys"],
                           !["lang"] = args["lang"]])

getOVFiets(args) ==
  Request(ENDPOINTS.OVFIETS, [NoParams EXCEPT !["station_code"] = args["stationCode"]])

\* The defaults getStationInfo supplies (NSApiService.ts:102-103).
DefaultLimit == 10

\* getStationInfo without its defaults: a parameter the caller omits stays undefined.
getStationInfoNoDefaults(args) ==
  Request(ENDPOINTS.STATIONS,
          [NoParams EXCEPT !["q"] = args["query"],
                           !["includeNonPlannableStations"] = args["includeNonPlannableStations"],
                           !["limit"] = args["limit"]])

getStationInfo(args) ==
  Request(ENDPOINTS.STATIONS,
          [NoParams EXCEPT !["q"] = args["query"],
                           !["includeNonPlannableStations"] =
                              Coalesce(args["includeNonPlannableStations"], B(FALSE)),
                           !["limit"] = Coalesce(args["limit"], N(DefaultLimit))])

getArrivals(args) ==
  Request(ENDPOINTS.ARRIVALS,
          [NoParams EXCEPT !["station"] = args["station"],
                           !["uicCode"] = args["uicCode"],
                           !["dateTime"] = args["dateTime"],
                           !["maxJourneys"] = args["maxJourneys"],
                           !["lang"] = args["lang"]])

\* ------------------------------------------------------------------ errors

\* A thrown value: its class, and what formatError reads of it.  `message`
\* is a text (a sequence of chunks); `dataMessage` is
\* error.response?.data?.message.
Thrown(class, code, message, hasResponse, dataMessage) ==
  [class |-> class, code |-> code, message |-> message,
   hasResponse |-> hasResponse, dataMessage |-> dataMessage]
NoError == Thrown("none", "", <<>>, FALSE, Undef)

\* new McpError(code, message)
McpError(code, message) == Thrown("McpError", code, message, FALSE, Undef)
\* ResponseFormatter.createMcpError
createMcpError(code, message) == McpError(code, message)

\* The AxiosError of a response with a non-2xx status, and of a request that
\* got no response.
AxiosHttpError(status, dataMessage) ==
  Thrown("AxiosError", "ERR_BAD_RESPONSE",
         <<"Request failed with status code ", NumToString(status)>>, TRUE, dataMessage)
AxiosTransportError(code, message) == Thrown("AxiosError", code, message, FALSE, Undef)
\* Any other Error, and a thrown value that is no Error.
OtherError(message) == Thrown("Error", "", message, FALSE, Undef)
NonError == Thrown("NonError", "", <<>>, FALSE, Undef)

\* A thrown value that is no Error: a string, a number, null, undefined, or
\* a plain object (which may have a message property of its own).
ThrownValue(kind, message) == Thrown(kind, "", message, FALSE, Undef)

\* error instanceof McpError / AxiosError (axios.isAxiosError) / Error
IsMcpError(e) == e.class = "McpError"
IsAxiosError(e) == e.class = "AxiosError"
IsError(e) == e.class \in {"McpError", "AxiosError", "Error"}

\* ------------------------------------------------------- response formatter

\* The 2 of JSON.stringify(data, null, 2).
IndentWidth == 2

TextItem(text) == [type |-> "text", text |-> text]
Envelope(isError, text) == [isError |-> isError, content |-> <<TextItem(text)>>]
NoEnvelope == [isError |-> Undef, content |-> <<>>]

\* formatSuccess with the data turned into text by String(data), not JSON.stringify.
formatSuccessToString(data) ==
  Envelope(Undef, <<IF data.j \in {"obj", "arr"} THEN "[object Object]" ELSE "value">>)

\* ResponseFormatter.formatSuccess
formatSuccess(data) == Envelope(Undef, JSONstringify(data, IndentWidth))

\* The error text with ?? in place of ||: an empty message of the body, or
\* an empty message of the error, is taken as it is.
AxiosErrorTextNullish(error) ==
  <<"NS API error: ">>
  \o (IF error.dataMessage \notin {Undef, Null} THEN <<ToStr(error.dataMessage)>>
      ELSE error.message)

\* The error text with the two messages tried in the other order:
\* error.message || error.response?.data?.message || 'Unknown error'.
AxiosErrorTextOwnMessageFirst(error) ==
  <<"NS API error: ">>
  \o (IF error.message # <<>> THEN error.message
      ELSE IF Truthy(error.dataMessage) THEN <<ToStr(error.dataMessage)>>
      ELSE <<"Unknown error">>)

\* `NS API error: ${error.response?.data?.message || error.message || 'Unknown error'}`
AxiosErrorText(error) ==
  <<"NS API error: ">>
  \o (IF Truthy(error.dataMessage) THEN <<ToStr(error.dataMessage)>>
      ELSE IF error.message # <<>> THEN error.message
      ELSE <<"Unknown error">>)

\* formatError with its last return statement lacking `isError: true`.
formatErrorUnflaggedFallback(error) ==
  IF IsMcpError(error) THEN Envelope(B(TRUE), error.message)
  ELSE IF IsAxiosError(error) THEN Envelope(B(TRUE), AxiosErrorText(error))
  ELSE Envelope(Undef, IF IsError(error) THEN error.message ELSE <<"Unknown error occurred">>)

\* formatError reading the message of whatever was thrown:
\* error?.message ?? 'Unknown error occurred' in its last branch.
formatErrorAnyMessage(error) ==
  IF IsMcpError(error) THEN Envelope(B(TRUE), error.message)
  ELSE IF IsAxiosError(error) THEN Envelope(B(TRUE), AxiosErrorText(error))
  ELSE Envelope(B(TRUE), IF IsError(error) \/ error.message # <<>> THEN error.message
                         ELSE <<"Unknown error occurred">>)

\* ResponseFormatter.formatError
formatError(error) ==
  IF IsMcpError(error) THEN Envelope(B(TRUE), error.message)
  ELSE IF IsAxiosError(error) THEN Envelope(B(TRUE), AxiosErrorText(error))
  ELSE Envelope(B(TRUE), IF IsError(error) THEN error.message ELSE <<"Unknown error occurred">>)

\* ---------------------------------------------------------------- catalog

\* The names the list-tools handler of each server advertises, in order.
NSServerTools ==
  <<"get_disruptions", "get_travel_advice", "get_departures", "get_ovfiets",
    "get_station_info", "get_current_time_in_rfc3339", "get_arrivals">>
DisruptionsServerTools == <<"get_disruptions", "get_travel_advice">>

\* inputSchema.required of each advertised tool (the same in both servers).
Required(name) ==
  CASE name = "get_travel_advice" -> {"fromStation", "toStation"}
    [] name = "get_ovfiets" -> {"stationCode"}
    [] name = "get_station_info" -> {"query"}
    [] OTHER -> {}

\* A descriptor of the catalog: its name and what its inputSchema requires.
ToolDescriptor(name) == [name |-> name, required |-> Required(name)]

Servers == {"NSServer", "DisruptionsServer"}
Catalog(srv) == IF srv = "NSServer" THEN NSServerTools ELSE DisruptionsServerTools
InCatalog(srv, name) == \E i \in DOMAIN Catalog(srv) : Catalog(srv)[i] = name

\* A list-tools handler that lists its first tool a second time.
ListToolsResultRepeated(srv) ==
  Append([i \in DOMAIN Catalog(srv) |-> ToolDescriptor(Catalog(srv)[i])],
         ToolDescriptor(Catalog(srv)[1]))

\* What the ListToolsRequestSchema handler returns: {tools: [...]}, an array
\* literal built anew at each invocation.
ListToolsResult(srv) == [i \in DOMAIN Catalog(srv) |-> ToolDescriptor(Catalog(srv)[i])]

\* ----------------------------------------------------- call-tool handlers

\* request.params.arguments: absent, or an object.
Arguments(bag) == [present |-> TRUE, flds |-> bag]
NoArguments == [present |-> FALSE, flds |-> EmptyBag]

\* const rawArgs = request.params.arguments || {}
RawArgs(arguments) == IF arguments.present THEN arguments.flds ELSE EmptyBag

\* How far a handler gets without waiting: it awaits an upstream request,
\* returns an envelope, or throws.  `validator` names the validator it ran.
Await(validator, request) ==
  [kind |-> "await", validator |-> validator, valid |-> TRUE, request |-> request,
   envelope |-> NoEnvelope, error |-> NoError]
Return(validator, valid, envelope) ==
  [kind |-> "return", validator |-> validator, valid |-> valid, request |-> NoRequest,
   envelope |-> envelope, error |-> NoError]
Throw(validator, valid, error) ==
  [kind |-> "throw", validator |-> validator, valid |-> valid, request |-> NoRequest,
   envelope |-> NoEnvelope, error |-> error]

\* An upstream outcome: the decoded body of a 2xx response, or the value
\* the awaited axiosInstance.get rejects with.
Success(data) == [ok |-> TRUE, data |-> data, error |-> NoError]
Failure(error) == [ok |-> FALSE, data |-> JNull, error |-> error]
NoOutcome == [ok |-> FALSE, data |-> JNull, error |-> NoError]

\* new Date().toISOString() at instant `now` (seconds after the epoch).
toISOString(now) == "1970-01-01T00:00:0" \o Digit(now) \o ".000Z"

\* The payload labelled with the zone toISOString prints in.
CurrentTimeUTC(now) ==
  JObj(<< <<(<<"datetime">>), JStr(<<toISOString(now)>>)>>,
          <<(<<"timezone">>), JStr(<<"UTC">>)>> >>)

\* The payload of get_current_time_in_rfc3339:
\* {datetime: now.toISOString(), timezone: 'Europe/Amsterdam'}
CurrentTime(now) ==
  JObj(<< <<(<<"datetime">>), JStr(<<toISOString(now)>>)>>,
          <<(<<"timezone">>), JStr(<<"Europe/Amsterdam">>)>> >>)

\* One case of NSServer's switch: validate, throw InvalidParams or call
\* the service.
NSServerCase(validator, valid, name, request) ==
  IF ~valid
  THEN Throw(validator, FALSE,
             createMcpError("InvalidParams", <<"Invalid arguments for ", name>>))
  ELSE Await(validator, request)

\* The body of NSServer's try block, up to its first await.
NSServerTry(name, rawArgs, now) ==
  CASE name = "get_disruptions" ->
         NSServerCase("isValidDisruptionsArgs", isValidDisruptionsArgs(ArgObject(rawArgs)),
                      name, getDisruptions(rawArgs))
    [] name = "get_travel_advice" ->
         NSServerCase("isValidTravelAdviceArgs", isValidTravelAdviceArgs(ArgObject(rawArgs)),
                      name, getTravelAdvice(rawArgs))
    [] name = "get_departures" ->
         NSServerCase("isValidDeparturesArgs", isValidDeparturesArgs(ArgObject(rawArgs)),
                      name, getDepartures(rawArgs))
    [] name = "get_ovfiets" ->
         NSServerCase("isValidOVFietsArgs", isValidOVFietsArgs(ArgObject(rawArgs)),
                      name, getOVFiets(rawArgs))
    [] name = "get_station_info" ->
         IF isValidStationInfoArgsThrows(ArgObject(rawArgs))
         THEN Throw("isValidStationInfoArgs", FALSE,
                    OtherError(<<"Cannot read properties of null (reading 'query')">>))
         ELSE NSServerCase("isValidStationInfoArgs",
                           isValidStationInfoArgs(ArgObject(rawArgs)),
                           name, getStationInfo(rawArgs))
    [] name = "get_current_time_in_rfc3339" ->
         Return("none", FALSE, formatSuccess(CurrentTime(now)))
    [] name = "get_arrivals" ->
         NSServerCase("isValidArrivalsArgs", isValidArrivalsArgs(ArgObject(rawArgs)),
                      name, getArrivals(rawArgs))
    [] OTHER ->
         Throw("none", FALSE, createMcpError("MethodNotFound", <<"Unknown tool: ", name>>))

\* catch (error) { return ResponseFormatter.formatError(error); }
NSServerCatch(step) ==
  IF step.kind = "throw" THEN Return(step.validator, step.valid, formatError(step.error))
  ELSE step

\* A handler whose switch compares the lower-cased name.
NSServerCallToolAnyCase(name, arguments, now) ==
  NSServerCatch(NSServerTry(ToLowerCase(name), RawArgs(arguments), now))

\* NSServer's call-tool handler up to its first await.
NSServerCallTool(name, arguments, now) == NSServerCatch(NSServerTry(name, RawArgs(arguments), now))

\* A handler whose awaited service call stands outside the try block: a
\* rejection leaves the handler as a thrown error.
NSServerResumeUncaught(validator, outcome) ==
  IF outcome.ok THEN Return(validator, TRUE, formatSuccess(outcome.data))
  ELSE Throw(validator, TRUE, outcome.error)

\* NSServer's handler after the awaited service call settled: inside the
\* same try block.
NSServerResume(validator, outcome) ==
  NSServerCatch(IF outcome.ok THEN Return(validator, TRUE, formatSuccess(outcome.data))
                ELSE Throw(validator, TRUE, outcome.error))

\* The order in which JSON.stringify meets the fields of an argument bag.
FieldOrder ==
  <<"isActive", "type", "fromStation", "toStation", "dateTime", "searchForArrival",
    "station", "uicCode", "maxJourneys", "lang", "stationCode", "query",
    "includeNonPlannableStations", "limit", "extra">>

JSToJSON(v) ==
  CASE v.kind = "string" -> JStr(IF v.str = "" THEN <<>> ELSE <<v.str>>)
    [] v.kind = "number" -> JNum(v.num)
    [] v.kind = "boolean" -> JBool(v.bool)
    [] OTHER -> JNull

RECURSIVE BagMembers(_, _)
BagMembers(bag, order) ==
  IF order = <<>> THEN <<>>
  ELSE (IF bag[Head(order)] = Undef THEN <<>>
        ELSE << <<(<<Head(order)>>), JSToJSON(bag[Head(order)])>> >>)
       \o BagMembers(bag, Tail(order))

\* `${JSON.stringify(request.params.arguments)}`
ArgumentsText(arguments) ==
  IF arguments.present THEN JSONstringify(JObj(BagMembers(arguments.flds, FieldOrder)), 0)
  ELSE <<"undefined">>

\* a || b
Either(a, b) == IF Truthy(a) THEN a ELSE b

\* DisruptionsServer: const args = {isActive: true, ...rawArgs,
\*   ...(rawArgs.isActive !== undefined && {isActive: String(..).toLowerCase() === 'true'})}
DisruptionsArgs(rawArgs) ==
  [rawArgs EXCEPT !["isActive"] =
     IF rawArgs["isActive"] # Undef
     THEN B(ToLowerCase(ToStr(rawArgs["isActive"])) = "true")
     ELSE B(TRUE)]

\* DisruptionsServer: the args of get_travel_advice, built field by field.
TravelAdviceArgs(rawArgs) ==
  [EmptyBag EXCEPT !["fromStation"] = S(ToStr(Either(rawArgs["fromStation"], S("")))),
                   !["toStation"] = S(ToStr(Either(rawArgs["toStation"], S("")))),
                   !["dateTime"] = rawArgs["dateTime"],
                   !["searchForArrival"] = B(rawArgs["searchForArrival"] = B(TRUE))]

\* DisruptionsServer's call-tool handler up to its first await: it has no
\* try block around the switch.
DisruptionsServerCallTool(name, arguments) ==
  LET rawArgs == RawArgs(arguments) IN
  CASE name = "get_disruptions" ->
         LET args == DisruptionsArgs(rawArgs) IN
         IF ~isValidDisruptionsArgs(ArgObject(args))
         THEN Throw("isValidDisruptionsArgs", FALSE,
                    McpError("InvalidParams",
                             ArgumentsText(arguments)
                             \o <<" Invalid arguments for ", name,
                                  ". Expected {isActive?: boolean, type?: \"MAINTENANCE\" | \"DISRUPTION\"}">>))
         ELSE Await("isValidDisruptionsArgs", getDisruptions(args))
    [] name = "get_travel_advice" ->
         LET args == TravelAdviceArgs(rawArgs) IN
         IF ~isValidTravelAdviceArgs(ArgObject(args))
         THEN Throw("isValidTravelAdviceArgs", FALSE,
                    McpError("InvalidParams",
                             <<"Invalid arguments for ", name,
                               ". Expected {fromStation: string, toStation: string, dateTime?: string, searchForArrival?: boolean}">>))
         ELSE Await("isValidTravelAdviceArgs", getTravelAdvice(args))
    [] OTHER ->
         Throw("none", FALSE, McpError("MethodNotFound", <<"Unknown tool: ", name>>))

\* DisruptionsServer's handler after the awaited axiosInstance.get settled:
\* the inner try/catch of the case.
DisruptionsServerResume(validator, outcome) ==
  IF outcome.ok
  THEN Return(validator, TRUE, Envelope(Undef, JSONstringify(outcome.data, IndentWidth)))
  ELSE IF IsAxiosError(outcome.error)
  THEN Return(validator, TRUE, Envelope(B(TRUE), AxiosErrorText(outcome.error)))
  ELSE Throw(validator, TRUE, outcome.error)

\* The call-tool handler of the server that runs.
HandlerCallTool(srv, name, arguments, now) ==
  IF srv = "NSServer" THEN NSServerCallTool(name, arguments, now)
  ELSE DisruptionsServerCallTool(name, arguments)

HandlerResume(srv, validator, outcome) ==
  IF srv = "NSServer" THEN NSServerResume(validator, outcome)
  ELSE DisruptionsServerResume(validator, outcome)

\* ----------------------------------------------------------------- inputs

\* The tool names a caller may send: the catalog's and some outside it.
CallNames ==
  {NSServerTools[i] : i \in DOMAIN NSServerTools}
  \cup {"get_unicorn", "GET_DISRUPTIONS", "get_prices"}

\* The values a caller may give a field: well-typed ones, the edges of the
\* declared ranges and enums, and ill-typed ones.
FieldValues(f) ==
  CASE f = "isActive" ->
         {B(TRUE), B(FALSE), S("true"), S("TRUE"), S("True"), S("false"), S("yes"), N(0)}
    [] f = "type" -> {S("MAINTENANCE"), S("DISRUPTION"), S("maintenance"), N(1)}
    [] f \in {"fromStation", "toStation"} -> {S("ASD"), S("UT"), S(""), N(5)}
    [] f = "dateTime" -> {S("2024-03-20T14:00:00+01:00"), N(5)}
    [] f \in {"searchForArrival", "includeNonPlannableStations"} ->
         {B(TRUE), B(FALSE), S("true")}
    [] f = "station" -> {S("ASD"), S(""), N(5)}
    [] f = "uicCode" -> {S("8400058"), S(""), N(5)}
    [] f = "maxJourneys" -> {N(0), N(1), N(40), N(100), N(101), S("40")}
    [] f = "lang" -> {S("nl"), S("en"), S("EN"), S("de"), N(1)}
    [] f = "stationCode" -> {S("ASD"), N(5)}
    [] f = "query" -> {S("Utrecht"), N(5)}
    [] f = "limit" -> {N(0), N(1), N(10), N(50), N(51), S("10")}
    [] OTHER -> {S("x")}

\* The fields a caller of `name` may define: the ones its schema declares
\* and one it does not.
ArgFields(name) ==
  CASE name \in {"get_disruptions", "GET_DISRUPTIONS"} -> {"isActive", "type", "extra"}
    [] name = "get_travel_advice" ->
         {"fromStation", "toStation", "dateTime", "searchForArrival", "extra"}
    [] name \in {"get_departures", "get_arrivals"} ->
         {"station", "uicCode", "dateTime", "maxJourneys", "lang", "extra"}
    [] name = "get_ovfiets" -> {"stationCode", "extra"}
    [] name = "get_station_info" ->
         {"query", "includeNonPlannableStations", "limit", "extra"}
    [] OTHER -> {"station", "extra"}

\* The bags over the fields `fs` that define at most n of them.
RECURSIVE Bags(_, _)
Bags(fs, n) ==
  IF n = 0 THEN {EmptyBag}
  ELSE LET smaller == Bags(fs, n - 1) IN
       smaller \cup UNION {{[b EXCEPT ![f] = v] : v \in FieldValues(f), b \in smaller} : f \in fs}

\* Every request.params.arguments a caller of `name` may send.
ArgumentsOf(name) == {NoArguments} \cup {Arguments(b) : b \in Bags(ArgFields(name), MaxArgs)}

\* The instants the clock may show.
Instants == {0, 1}

\* Bodies of 2xx responses.
UpstreamData ==
  {JArr(<<>>),
   JObj(<< <<(<<"payload">>), JArr(<<JStr(<<"Utrecht Centraal">>), JNum(12)>>)>> >>)}

\* What an awaited axiosInstance.get may reject with: a non-2xx response
\* whose body has a message, has an empty one or has none; no response at
\* all (with and without a message of its own); an Error that is no
\* AxiosError; a value that is no Error.
UpstreamErrors ==
  {AxiosHttpError(500, S("server error")),
   AxiosHttpError(500, S("")),
   AxiosHttpError(404, Undef),
   AxiosTransportError("ENOTFOUND", <<"getaddrinfo ENOTFOUND gateway.apiportal.ns.nl">>),
   AxiosTransportError("ECONNRESET", <<>>),
   OtherError(<<"boom">>),
   NonError}

Outcomes == {Success(d) : d \in UpstreamData} \cup {Failure(e) : e \in UpstreamErrors}

\* The JSON-compatible values formatSuccess is tried on.
Atoms ==
  {JNull, JBool(TRUE), JBool(FALSE), JNum(0), JNum(-7), JNum(120),
   JStr(<<>>), JStr(<<"abc">>), JStr(<<"café ", "\"", "\\", "\n", "n">>)}
Keys == {<<"a">>, <<"kéy", "\"">>}

\* The sequences over S of length at most n.
RECURSIVE SeqsUpTo(_, _)
SeqsUpTo(S_, n) ==
  IF n = 0 THEN {<<>>}
  ELSE LET shorter == SeqsUpTo(S_, n - 1) IN
       shorter \cup {Append(s, x) : s \in shorter, x \in S_}

DistinctKeys(ms) == \A i, k \in DOMAIN ms : i # k => ms[i][1] # ms[k][1]

\* Arrays and objects of atoms.
Flat(n) ==
  {JArr(es) : es \in SeqsUpTo(Atoms, n)}
  \cup {JObj(ms) : ms \in {m \in SeqsUpTo(Keys \X Atoms, n) : DistinctKeys(m)}}

\* The values of S put in an array or an object.
Wrap(S_) ==
  {JArr(<<v>>) : v \in S_}
  \cup {JArr(<<JNum(1), v>>) : v \in S_}
  \cup {JObj(<< <<k, v>> >>) : k \in Keys, v \in S_}

RECURSIVE Nested(_)
Nested(d) == IF d = 0 THEN Atoms \cup Flat(MaxLen) ELSE Nested(d - 1) \cup Wrap(Nested(d - 1))

JSONInputs == Nested(MaxDepth)

\* ------------------------------------------------------- validator probes

\* The type guards of types.ts that the dispatchers run.
Validators ==
  {"isValidDisruptionsArgs", "isValidTravelAdviceArgs", "isValidDeparturesArgs",
   "isValidOVFietsArgs", "isValidStationInfoArgs", "isValidArrivalsArgs"}

\* The fields each type guard reads, and one it does not.
ValidatorFields(v) ==
  CASE v = "isValidDisruptionsArgs" -> ArgFields("get_disruptions")
    [] v = "isValidTravelAdviceArgs" -> ArgFields("get_travel_advice")
    [] v = "isValidDeparturesArgs" -> ArgFields("get_departures")
    [] v = "isValidOVFietsArgs" -> ArgFields("get_ovfiets")
    [] v = "isValidStationInfoArgs" -> ArgFields("get_station_info")
    [] v = "isValidArrivalsArgs" -> ArgFields("get_arrivals")

\* What a validator may be handed that is no plain object.
NonObjectKinds == {"null", "undefined", "array", "string", "number", "boolean"}

\* The values a validator is tried on: the non-objects and the bags of its fields.
ValidatorInputs(v) ==
  {ArgOther(k) : k \in NonObjectKinds}
  \cup {ArgObject(b) : b \in Bags(ValidatorFields(v), MaxArgs)}

\* The completion of a call of a type guard: the boolean it returns, or the
\* TypeError it throws.
Returned(b) == [threw |-> FALSE, value |-> b]
ThrewTypeError == [threw |-> TRUE, value |-> FALSE]
NotRun == [threw |-> FALSE, value |-> FALSE]

\* validator(args), as the dispatchers import it from types.ts.
RunValidator(v, args) ==
  CASE v = "isValidDisruptionsArgs" -> Returned(isValidDisruptionsArgs(args))
    [] v = "isValidTravelAdviceArgs" -> Returned(isValidTravelAdviceArgs(args))
    [] v = "isValidDeparturesArgs" -> Returned(isValidDeparturesArgs(args))
    [] v = "isValidOVFietsArgs" -> Returned(isValidOVFietsArgs(args))
    [] v = "isValidStationInfoArgs" ->
         IF isValidStationInfoArgsThrows(args) THEN ThrewTypeError
         ELSE Returned(isValidStationInfoArgs(args))
    [] v = "isValidArrivalsArgs" -> Returned(isValidArrivalsArgs(args))

\* A probe: a function of the program, one input, and (once run) its result.
ValidatorProbe(v, args) ==
  [fn |-> v, args |-> args, thrown |-> NoError, done |-> FALSE,
   completion |-> NotRun, envelope |-> NoEnvelope]
ErrorProbe(error) ==
  [fn |-> "formatError", args |-> ArgOther("undefined"), thrown |-> error, done |-> FALSE,
   completion |-> NotRun, envelope |-> NoEnvelope]
NoProbe ==
  [fn |-> "none", args |-> ArgOther("undefined"), thrown |-> NoError, done |-> FALSE,
   completion |-> NotRun, envelope |-> NoEnvelope]

\* -------------------------------------------------------- process lifecycle

\* The process: the value of process.env.NS_API_KEY once dotenv.config() has
\* run, how far the startup code got, what it has installed, the
\* server.close() calls of the SIGINT listener, and its exit.
Process(key, pc, handlers, listener, connected, closes, exited, exitCode) ==
  [key |-> key, pc |-> pc, handlers |-> handlers, listener |-> listener,
   connected |-> connected, closes |-> closes, exited |-> exited, exitCode |-> exitCode]

\* The process as it serves requests: started with a key, handlers
\* registered, transport connected.
Serving == Process(S("secret"), "serving", TRUE, TRUE, TRUE, <<>>, FALSE, 0)

\* The process when its main module starts to run.
Booting(key) == Process(key, "boot", FALSE, FALSE, FALSE, <<>>, FALSE, 0)

\* What process.env.NS_API_KEY may hold: nothing, the empty string, a key.
EnvKeys == {Undef, S(""), S("secret")}

\* A startup check that only looks for an undefined key.
KeyMissingUndefinedOnly(key) == key = Undef

\* if (!NS_API_KEY)
KeyMissing(key) == ~Truthy(key)

\* The event loop takes the next event: the process has not exited, and no
\* SIGINT listener stands right behind its resolved await (its
\* continuation, process.exit, runs before any other event).
Alive(p) == ~p.exited /\ \A k \in DOMAIN p.closes : p.closes[k] # "done"

\* Requests reach the handlers once they are registered and the transport
\* is connected, and until it is closed or the process exits.
CanServe(p) == p.handlers /\ p.connected /\ Alive(p)

\* A SIGINT listener that calls process.exit(0) without awaiting the close.
ExitsUnawaited(close) == close \in {"pending", "done"}

\* await this.server.close(); process.exit(0): the listener goes on to
\* process.exit once the close it awaits has resolved.
ExitsAfterClose(close) == close = "done"

\* ------------------------------------------------------------------ Config

\* The constants the Config constructor puts next to the key.
SERVER_NAME == "ns-disruptions-server"
SERVER_VERSION == "1.0.0"

\* Config.instance before any construction: undefined.
NoInstance == [serial |-> 0, NS_API_KEY |-> Undef, SERVER_NAME |-> "", SERVER_VERSION |-> ""]

\* The object `new Config()` makes when the key is there: `serial` stands
\* for its identity (two objects are the same object iff their serials agree).
NewConfig(key, serial) ==
  [serial |-> serial, NS_API_KEY |-> key,
   SERVER_NAME |-> SERVER_NAME, SERVER_VERSION |-> SERVER_VERSION]

\* The getters of a Config object.
nsApiKey(c) == c.NS_API_KEY
serverName(c) == c.SERVER_NAME
serverVersion(c) == c.SERVER_VERSION

\* What a call of getInstance gave its caller.
GotInstance(c) == [threw |-> FALSE, instance |-> c, message |-> ""]
ThrewKeyRequired ==
  [threw |-> TRUE, instance |-> NoInstance,
   message |-> "NS_API_KEY environment variable is required"]

\* The Config class in its process: process.env.NS_API_KEY as dotenv.config()
\* leaves it, the static Config.instance, how often the constructor ran and
\* how often it ran to its end, what the calls of getInstance gave, and the
\* values the getters were seen to return.
ConfigLoaded(env) ==
  [env |-> env, instance |-> NoInstance, attempts |-> 0, constructed |-> 0,
   results |-> <<>>, reads |-> {}]

\* A getInstance that constructs on every call: Config.instance = new Config().
getInstanceFresh(cfg) ==
  IF KeyMissing(cfg.env)
  THEN [cfg EXCEPT !.attempts = @ + 1, !.results = Append(@, ThrewKeyRequired)]
  ELSE LET made == NewConfig(cfg.env, cfg.constructed + 1) IN
       [cfg EXCEPT !.instance = made, !.attempts = @ + 1, !.constructed = @ + 1,
                   !.results = Append(@, GotInstance(made))]

\* Config.getInstance(), the private constructor included.
getInstance(cfg) ==
  IF cfg.instance # NoInstance
  THEN [cfg EXCEPT !.results = Append(@, GotInstance(cfg.instance))]
  ELSE IF KeyMissing(cfg.env)
  THEN [cfg EXCEPT !.attempts = @ + 1, !.results = Append(@, ThrewKeyRequired)]
  ELSE LET made == NewConfig(cfg.env, cfg.constructed + 1) IN
       [cfg EXCEPT !.instance = made, !.attempts = @ + 1, !.constructed = @ + 1,
                   !.results = Append(@, GotInstance(made))]

\* The Config class once the server serves: NSServer's constructor has
\* called getInstance; the earlier server reads process.env itself.
ServingConfig(srv) ==
  IF srv = "NSServer" THEN getInstance(ConfigLoaded(S("secret"))) ELSE ConfigLoaded(S("secret"))

\* ---------------------------------------------------------- state machine

VARIABLES
  server,     \* which server of the repository is running
  calls,      \* per call slot: the progress of the call-tool handler
  data,       \* a value handed to formatSuccess
  formatted,  \* the envelope formatSuccess made of it
  parsed,     \* JSON.parse of that envelope's text
  probe,      \* a validator or formatError applied to one input, and its result
  proc,       \* the process: its environment, startup, signal handling and exit
  listed,     \* the catalogs the list-tools handler has returned
  config      \* the Config class: the environment, its instance, its calls

vars == <<server, calls, data, formatted, parsed, probe, proc, listed, config>>

CallIds == 1..MaxCalls

Idle ==
  [pc |-> "idle", name |-> "", arguments |-> NoArguments, validator |-> "none",
   valid |-> FALSE, requests |-> <<>>, outcome |-> NoOutcome,
   envelope |-> NoEnvelope, error |-> NoError]

NotParsed == [result |-> "none", v |-> JNull]

Init ==
  /\ server \in Servers
  /\ calls = [id \in CallIds |-> Idle]
  /\ data = JNull
  /\ formatted = NoEnvelope
  /\ parsed = NotParsed
  /\ probe = NoProbe
  /\ proc = Serving
  /\ listed = {}
  /\ config = ServingConfig(server)

PcAfter(step) ==
  CASE step.kind = "await" -> "pending"
    [] step.kind = "return" -> "returned"
    [] step.kind = "throw" -> "thrown"

\* The transport hands a call request to the handler, which runs up to its
\* first await (or to its end).  The slots are taken in the order of arrival.
CallTool(id, name, arguments, now) ==
  /\ CanServe(proc)
  /\ calls[id].pc = "idle"
  /\ \A j \in 1..(id - 1) : calls[j].pc # "idle"
  /\ LET step == HandlerCallTool(server, name, arguments, now) IN
     calls' = [calls EXCEPT ![id] =
                 [pc |-> PcAfter(step), name |-> name, arguments |-> arguments,
                  validator |-> step.validator, valid |-> step.valid,
                  requests |-> IF step.kind = "await" THEN <<step.request>> ELSE <<>>,
                  outcome |-> NoOutcome, envelope |-> step.envelope, error |-> step.error]]
  /\ UNCHANGED <<server, data, formatted, parsed, probe, proc, listed, config>>

\* A service method that sends its request again when it failed.
ReissuedOnFailure(request, outcome) == IF outcome.ok THEN <<>> ELSE <<request>>

\* The requests a service method issues after its first one settled: none,
\* it awaits axiosInstance.get once and lets a rejection propagate.
Reissued(request, outcome) == <<>>

\* An awaited promise that resumes the handler invocation that has waited longest.
ContinuationOldestPending(cs, id) ==
  CHOOSE k \in DOMAIN cs : cs[k].pc = "pending" /\ \A j \in DOMAIN cs : cs[j].pc = "pending" => k <= j

\* const data = await this.nsApiService.<method>(rawArgs): the invocation
\* that resumes when the request of call `id` settles is the one that
\* issued it; the promise and rawArgs are locals of that invocation.
Continuation(cs, id) == id

\* The upstream request of a pending call settles and its handler runs on.
UpstreamSettles(id, outcome) ==
  /\ Alive(proc)
  /\ calls[id].pc = "pending"
  /\ calls[id].outcome = NoOutcome
  /\ LET resumed == Continuation(calls, id)
         step == HandlerResume(server, calls[resumed].validator, outcome) IN
     calls' = [calls EXCEPT
                 ![id].outcome = outcome,
                 ![id].requests = @ \o Reissued(@[Len(@)], outcome),
                 ![resumed].pc = PcAfter(step),
                 ![resumed].envelope = step.envelope,
                 ![resumed].error = step.error]
  /\ UNCHANGED <<server, data, formatted, parsed, probe, proc, listed, config>>

\* The transport delivers one call at a time, in the first slot.
Next ==
  \/ \E name \in CallNames : \E arguments \in ArgumentsOf(name) : \E now \in Instants :
       CallTool(1, name, arguments, now)
  \/ \E outcome \in Outcomes : UpstreamSettles(1, outcome)

Spec == Init /\ [][Next]_vars

\* The main module starts: dotenv.config() has filled process.env, and the
\* key is checked before anything else is built.  Without a key the module
\* (index.ts) or the Config constructor throws and the process dies.
CheckKey ==
  /\ proc.pc = "boot"
  /\ proc' = IF KeyMissing(proc.key)
             THEN [proc EXCEPT !.pc = "failed", !.exited = TRUE, !.exitCode = 1]
             ELSE [proc EXCEPT !.pc = "configured"]
  /\ config' = IF server = "NSServer" THEN getInstance(config) ELSE config
  /\ UNCHANGED <<server, calls, data, formatted, parsed, probe, listed>>

\* new Server(...), and the axios instance with the key in its headers.
CreateServer ==
  /\ proc.pc = "configured"
  /\ proc' = [proc EXCEPT !.pc = "created"]
  /\ UNCHANGED <<server, calls, data, formatted, parsed, probe, listed, config>>

\* setupHandlers(): the list-tools and call-tool handlers are registered.
SetupHandlers ==
  /\ proc.pc = "created"
  /\ proc' = [proc EXCEPT !.pc = "registered", !.handlers = TRUE]
  /\ UNCHANGED <<server, calls, data, formatted, parsed, probe, listed, config>>

\* setupErrorHandling(): onerror and the SIGINT listener are installed.
SetupErrorHandling ==
  /\ proc.pc = "registered"
  /\ proc' = [proc EXCEPT !.pc = "guarded", !.listener = TRUE]
  /\ UNCHANGED <<server, calls, data, formatted, parsed, probe, listed, config>>

\* run(): the stdio transport is connected.
Run ==
  /\ proc.pc = "guarded"
  /\ proc' = [proc EXCEPT !.pc = "serving", !.connected = TRUE]
  /\ UNCHANGED <<server, calls, data, formatted, parsed, probe, listed, config>>

\* Some call-tool request has been handed to the handler.
CallsStarted == \E id \in CallIds : calls[id].pc # "idle"

\* The list-tools handler runs; what it returns is kept, with whether
\* tool calls came before it.
ListTools ==
  /\ CanServe(proc)
  /\ listed' = listed \cup {[tools |-> ListToolsResult(server), afterCalls |-> CallsStarted]}
  /\ UNCHANGED <<server, calls, data, formatted, parsed, probe, proc, config>>

\* SIGINT arrives while the event loop runs: the listener calls server.close().
Sigint ==
  /\ proc.pc = "serving"
  /\ proc.listener
  /\ Alive(proc)
  /\ Len(proc.closes) < MaxSigints
  /\ proc' = [proc EXCEPT !.closes = Append(@, "pending")]
  /\ UNCHANGED <<server, calls, data, formatted, parsed, probe, listed, config>>

\* A server.close() settles: the transport is closed, or the close failed.
CloseSettles(k, result) ==
  /\ Alive(proc)
  /\ k \in DOMAIN proc.closes
  /\ proc.closes[k] = "pending"
  /\ proc' = [proc EXCEPT !.closes[k] = result,
                          !.connected = IF result = "done" THEN FALSE ELSE @]
  /\ UNCHANGED <<server, calls, data, formatted, parsed, probe, listed, config>>

\* The listener that awaited close k goes on to process.exit(0).
SigintExit(k) ==
  /\ ~proc.exited
  /\ k \in DOMAIN proc.closes
  /\ ExitsAfterClose(proc.closes[k])
  /\ proc' = [proc EXCEPT !.exited = TRUE, !.exitCode = 0]
  /\ UNCHANGED <<server, calls, data, formatted, parsed, probe, listed, config>>

\* A failed close rejects the listener's promise, which nothing handles: a
\* runtime that treats unhandled rejections as fatal ends the process.
UnhandledRejection(k) ==
  /\ Alive(proc)
  /\ k \in DOMAIN proc.closes
  /\ proc.closes[k] = "failed"
  /\ proc' = [proc EXCEPT !.exited = TRUE, !.exitCode = 1]
  /\ UNCHANGED <<server, calls, data, formatted, parsed, probe, listed, config>>

\* The calls and upstream outcomes of the whole-process specification.
ConcurrentCalls ==
  {<<"get_disruptions", NoArguments>>,
   <<"get_disruptions", Arguments([EmptyBag EXCEPT !["type"] = S("maintenance")])>>,
   <<"get_travel_advice",
     Arguments([EmptyBag EXCEPT !["fromStation"] = S("ASD"), !["toStation"] = S("UT")])>>}
ConcurrentOutcomes ==
  {Success(JArr(<<>>)), Failure(AxiosHttpError(500, S("server error")))}

\* The process from its start: startup, requests on every call slot in any
\* interleaving with their upstream responses, list-tools requests, signals.
InitProcess ==
  /\ server \in Servers
  /\ calls = [id \in CallIds |-> Idle]
  /\ data = JNull
  /\ formatted = NoEnvelope
  /\ parsed = NotParsed
  /\ probe = NoProbe
  /\ proc \in {Booting(key) : key \in EnvKeys}
  /\ listed = {}
  /\ config = ConfigLoaded(proc.key)

NextProcess ==
  \/ CheckKey
  \/ CreateServer
  \/ SetupHandlers
  \/ SetupErrorHandling
  \/ Run
  \/ ListTools
  \/ \E id \in CallIds : \E call \in ConcurrentCalls : CallTool(id, call[1], call[2], 0)
  \/ \E id \in CallIds : \E outcome \in ConcurrentOutcomes : UpstreamSettles(id, outcome)
  \/ Sigint
  \/ \E k \in 1..MaxSigints : \E result \in {"done", "failed"} : CloseSettles(k, result)
  \/ \E k \in 1..MaxSigints : SigintExit(k)
  \/ \E k \in 1..MaxSigints : UnhandledRejection(k)

SpecProcess == InitProcess /\ [][NextProcess]_vars

\* formatSuccess as a function of its input, and JSON.parse of its text.
InitFormat ==
  /\ server = "NSServer"
  /\ calls = [id \in CallIds |-> Idle]
  /\ data \in JSONInputs
  /\ formatted = NoEnvelope
  /\ parsed = NotParsed
  /\ probe = NoProbe
  /\ proc = Serving
  /\ listed = {}
  /\ config = ServingConfig(server)

FormatSuccess ==
  /\ formatted = NoEnvelope
  /\ formatted' = formatSuccess(data)
  /\ UNCHANGED <<server, calls, data, parsed, probe, proc, listed, config>>

ParseText ==
  /\ formatted # NoEnvelope
  /\ parsed = NotParsed
  /\ parsed' = JSONparse(formatted.content[1].text)
  /\ UNCHANGED <<server, calls, data, formatted, probe, proc, listed, config>>

NextFormat == FormatSuccess \/ ParseText

SpecFormat == InitFormat /\ [][NextFormat]_vars

\* The messages an error may carry.
Messages ==
  {<<>>, <<"boom">>, <<"Invalid arguments for ", "get_ovfiets">>,
   <<"Unknown tool: ", "get_unicorn">>, <<"timeout of 1000ms exceeded">>,
   <<"NS API error: ", "nested">>}

\* The values formatError is tried on.
ErrorInputs ==
  {McpError(code, msg) : code \in {"InvalidParams", "MethodNotFound", "InternalError"},
                         msg \in Messages}
  \cup {AxiosHttpError(status, dm) :
          status \in {404, 500},
          dm \in {Undef, Null, S(""), S("server error"), N(0), N(503), B(FALSE)}}
  \cup {AxiosTransportError(code, msg) : code \in {"ENOTFOUND", "ECONNRESET"}, msg \in Messages}
  \cup {OtherError(msg) : msg \in Messages}
  \cup {ThrownValue(kind, <<>>) : kind \in {"string", "number", "null", "undefined", "object"}}
  \cup {ThrownValue("object", msg) : msg \in Messages}
  \cup {NonError}

\* formatError as a function of its input.
InitFormatError ==
  /\ server = "NSServer"
  /\ calls = [id \in CallIds |-> Idle]
  /\ data = JNull
  /\ formatted = NoEnvelope
  /\ parsed = NotParsed
  /\ probe \in {ErrorProbe(error) : error \in ErrorInputs}
  /\ proc = Serving
  /\ listed = {}
  /\ config = ServingConfig(server)

FormatError ==
  /\ probe.fn = "formatError"
  /\ ~probe.done
  /\ probe' = [probe EXCEPT !.done = TRUE, !.completion = Returned(TRUE),
                            !.envelope = formatError(probe.thrown)]
  /\ UNCHANGED <<server, calls, data, formatted, parsed, proc, listed, config>>

NextFormatError == FormatError

SpecFormatError == InitFormatError /\ [][NextFormatError]_vars

\* A type guard as a function of its input.
InitValidate ==
  /\ server = "NSServer"
  /\ calls = [id \in CallIds |-> Idle]
  /\ data = JNull
  /\ formatted = NoEnvelope
  /\ parsed = NotParsed
  /\ probe \in UNION {{ValidatorProbe(v, a) : a \in ValidatorInputs(v)} : v \in Validators}
  /\ proc = Serving
  /\ listed = {}
  /\ config = ServingConfig(server)

Validate ==
  /\ probe.fn \in Validators
  /\ ~probe.done
  /\ probe' = [probe EXCEPT !.done = TRUE, !.completion = RunValidator(probe.fn, probe.args)]
  /\ UNCHANGED <<server, calls, data, formatted, parsed, proc, listed, config>>

NextValidate == Validate

SpecValidate == InitValidate /\ [][NextValidate]_vars

\* The Config class on its own, called any number of times by any caller,
\* in an environment whose key may be set, changed or removed meanwhile.
ConfigEnvKeys == EnvKeys \cup {S("rotated")}

InitConfig ==
  /\ server = "NSServer"
  /\ calls = [id \in CallIds |-> Idle]
  /\ data = JNull
  /\ formatted = NoEnvelope
  /\ parsed = NotParsed
  /\ probe = NoProbe
  /\ proc \in {Booting(key) : key \in ConfigEnvKeys}
  /\ listed = {}
  /\ config = ConfigLoaded(proc.key)

\* process.env.NS_API_KEY gets another value (or none).
SetEnv(key) ==
  /\ key # config.env
  /\ config' = [config EXCEPT !.env = key]
  /\ proc' = [proc EXCEPT !.key = key]
  /\ UNCHANGED <<server, calls, data, formatted, parsed, probe, listed>>

\* Some caller runs Config.getInstance().
GetInstance ==
  /\ Len(config.results) < MaxGets
  /\ config' = getInstance(config)
  /\ UNCHANGED <<server, calls, data, formatted, parsed, probe, proc, listed>>

\* A caller that holds the instance a getInstance returned reads its getters.
ReadGetters(k) ==
  /\ k \in DOMAIN config.results
  /\ ~config.results[k].threw
  /\ LET held == config.results[k].instance IN
     config' = [config EXCEPT !.reads = @ \cup
                  {[nsApiKey |-> nsApiKey(held), serverName |-> serverName(held),
                    serverVersion |-> serverVersion(held)]}]
  /\ UNCHANGED <<server, calls, data, formatted, parsed, probe, proc, listed>>

NextConfig ==
  \/ \E key \in ConfigEnvKeys : SetEnv(key)
  \/ GetInstance
  \/ \E k \in 1..MaxGets : ReadGetters(k)

SpecConfig == InitConfig /\ [][NextConfig]_vars

\* NSServer serving concurrent calls whose upstream requests all settle in
\* the end: calls that wait for the upstream service, and calls that do not
\* (rejected arguments, the clock, a name outside the catalog).
LiveCalls ==
  ConcurrentCalls
  \cup {<<"get_current_time_in_rfc3339", NoArguments>>, <<"get_unicorn", NoArguments>>}

\* What the awaited request of such a call may settle with: a 2xx body, a
\* non-2xx response, an Error that is no AxiosError.
LiveOutcomes == ConcurrentOutcomes \cup {Failure(OtherError(<<"boom">>))}

InitLive ==
  /\ server = "NSServer"
  /\ calls = [id \in CallIds |-> Idle]
  /\ data = JNull
  /\ formatted = NoEnvelope
  /\ parsed = NotParsed
  /\ probe = NoProbe
  /\ proc = Serving
  /\ listed = {}
  /\ config = ServingConfig(server)

NextLive ==
  \/ \E id \in CallIds : \E call \in LiveCalls : CallTool(id, call[1], call[2], 0)
  \/ \E id \in CallIds : \E outcome \in LiveOutcomes : UpstreamSettles(id, outcome)

\* Every issued upstream request completes or fails in the end: axios
\* settles the promise the handler awaits.
UpstreamFairness ==
  \A id \in CallIds : WF_vars(\E outcome \in LiveOutcomes : UpstreamSettles(id, outcome))

SpecLive == InitLive /\ [][NextLive]_vars /\ UpstreamFairness

\* ----------------------------------------------------------------- claims

\* The text holds s (as one of its chunks; every text holds the empty string).
TextContains(text, s) == s = "" \/ \E i \in DOMAIN text : text[i] = s

\* A ResponseEnvelope: one content item of type "text", isError absent or a boolean.
IsResponseEnvelope(e) ==
  /\ Len(e.content) = 1
  /\ e.content[1].type = "text"
  /\ e.isError \in {Undef, B(TRUE), B(FALSE)}

Started(c) == c.pc # "idle"
Finished(c) == c.pc \in {"returned", "thrown"}
ReturnedError(c) ==
  c.pc = "returned" /\ IsResponseEnvelope(c.envelope) /\ c.envelope.isError = B(TRUE)
ReturnedSuccess(c) ==
  c.pc = "returned" /\ IsResponseEnvelope(c.envelope) /\ c.envelope.isError \in {Undef, B(FALSE)}

\* The call failed: an unknown tool, rejected arguments or a failed upstream request.
CallFailed(c) ==
  \/ ~InCatalog(server, c.name)
  \/ (c.validator # "none" /\ ~c.valid)
  \/ (c.outcome # NoOutcome /\ ~c.outcome.ok)

\* What C1 says of one call: its handler never throws, what it returns is
\* a ResponseEnvelope, and a failed call ends in an error envelope.
NeverThrows(c) ==
  /\ c.pc # "thrown"
  /\ c.pc = "returned" => IsResponseEnvelope(c.envelope)
  /\ (Finished(c) /\ CallFailed(c)) => ReturnedError(c)

\* C1: for every tool name, argument bag and upstream outcome the call-tool
\* handler returns a ResponseEnvelope and never throws past the dispatch
\* boundary; every failure becomes an error envelope.
C1_HandlerNeverThrows == \A id \in CallIds : NeverThrows(calls[id])

\* C1 restricted to NSServer, whose handler wraps the switch in try/catch.
C1_NSServerNeverThrows == server = "NSServer" => \A id \in CallIds : NeverThrows(calls[id])

\* What C2 says of one call of a name outside the catalog.
UnknownToolRejected(c) ==
  /\ ReturnedError(c)
  /\ TextContains(c.envelope.content[1].text, "Unknown tool: ")
  /\ TextContains(c.envelope.content[1].text, c.name)
  /\ c.requests = <<>>

\* C2: a tool name outside the catalog gets an envelope with isError=true
\* whose text says "unknown tool" and holds the name, whatever the
\* arguments, and no upstream request is issued.
C2_UnknownToolIsErrorEnvelope ==
  \A id \in CallIds :
    (Started(calls[id]) /\ ~InCatalog(server, calls[id].name)) => UnknownToolRejected(calls[id])

\* C2 restricted to NSServer.
C2_NSServerUnknownTool ==
  server = "NSServer" =>
    \A id \in CallIds :
      (Started(calls[id]) /\ ~InCatalog(server, calls[id].name))
        => UnknownToolRejected(calls[id])

\* The caller's bag lacks a field the tool's schema requires.
LacksRequired(c) ==
  /\ Started(c)
  /\ InCatalog(server, c.name)
  /\ \E f \in Required(c.name) : RawArgs(c.arguments)[f] = Undef

\* What C3 says of such a call: the validator rejects it, the handler
\* returns an error envelope and issues no upstream request.
RejectedByValidation(c) ==
  /\ c.validator # "none" /\ ~c.valid
  /\ ReturnedError(c)
  /\ c.requests = <<>>

\* C3: a call that lacks a required field (fromStation, toStation,
\* stationCode, query) is rejected by validation with an error envelope and
\* no upstream request.
C3_MissingRequiredRejected ==
  \A id \in CallIds : LacksRequired(calls[id]) => RejectedByValidation(calls[id])

\* C3 restricted to NSServer.
C3_NSServerMissingRequired ==
  server = "NSServer" =>
    \A id \in CallIds : LacksRequired(calls[id]) => RejectedByValidation(calls[id])

\* The bag defines the field f and no other.
OnlyField(bag, f) == bag[f] # Undef /\ \A g \in Fields \ {f} : bag[g] = Undef

\* The validator ran and accepted / rejected the call's arguments.
Accepted(c) == c.validator # "none" /\ c.valid
Rejected(c) == c.validator # "none" /\ ~c.valid

\* A started call of get_departures or get_arrivals on a server that has the tool.
StationBoardCall(c) ==
  /\ Started(c)
  /\ c.name \in {"get_departures", "get_arrivals"}
  /\ InCatalog(server, c.name)

\* C4: get_departures and get_arrivals reject a bag with neither station nor
\* uicCode, accept a bag with only station (a string) and accept a bag with
\* only uicCode (a string).
C4_StationOrUicCode ==
  \A id \in CallIds :
    LET c == calls[id]
        bag == RawArgs(c.arguments) IN
    StationBoardCall(c) =>
      /\ (bag["station"] = Undef /\ bag["uicCode"] = Undef) => Rejected(c)
      /\ (OnlyField(bag, "station") /\ TypeOf(bag["station"]) = "string") => Accepted(c)
      /\ (OnlyField(bag, "uicCode") /\ TypeOf(bag["uicCode"]) = "string") => Accepted(c)

\* The validator the dispatcher runs for a tool, applied to a bag.
Validates(name, bag) ==
  CASE name = "get_disruptions" -> isValidDisruptionsArgs(ArgObject(bag))
    [] name = "get_travel_advice" -> isValidTravelAdviceArgs(ArgObject(bag))
    [] name = "get_departures" -> isValidDeparturesArgs(ArgObject(bag))
    [] name = "get_ovfiets" -> isValidOVFietsArgs(ArgObject(bag))
    [] name = "get_station_info" -> isValidStationInfoArgs(ArgObject(bag))
    [] name = "get_arrivals" -> isValidArrivalsArgs(ArgObject(bag))
    [] OTHER -> FALSE

\* The bag is valid for the tool once the field f is taken out of it.
OtherwiseValid(name, bag, f) == Validates(name, [bag EXCEPT ![f] = Undef])

\* C5: with an otherwise valid bag, get_departures and get_arrivals reject
\* maxJourneys 0 and 101 and accept maxJourneys 1 and 100.
C5_MaxJourneysBounds ==
  \A id \in CallIds :
    LET c == calls[id]
        bag == RawArgs(c.arguments) IN
    (StationBoardCall(c) /\ OtherwiseValid(c.name, bag, "maxJourneys")) =>
      /\ bag["maxJourneys"] \in {N(0), N(101)} => Rejected(c)
      /\ bag["maxJourneys"] \in {N(1), N(100)} => Accepted(c)

\* C6: get_disruptions with an empty or absent bag issues the upstream
\* disruptions request with isActive = true.
C6_DisruptionsDefaultIsActive ==
  \A id \in CallIds :
    LET c == calls[id] IN
    (Started(c) /\ c.name = "get_disruptions" /\ RawArgs(c.arguments) = EmptyBag) =>
      /\ Len(c.requests) = 1
      /\ c.requests[1].path = ENDPOINTS.DISRUPTIONS
      /\ c.requests[1].params["isActive"] = B(TRUE)

\* C6 restricted to DisruptionsServer, whose handler spreads the bag over {isActive: true}.
C6_DisruptionsServerDefaultIsActive ==
  server = "DisruptionsServer" =>
    \A id \in CallIds :
      LET c == calls[id] IN
      (Started(c) /\ c.name = "get_disruptions" /\ RawArgs(c.arguments) = EmptyBag) =>
        /\ Len(c.requests) = 1
        /\ c.requests[1].params["isActive"] = B(TRUE)

\* A started get_station_info call whose bag is valid but for its limit.
StationInfoCall(c) ==
  /\ Started(c)
  /\ c.name = "get_station_info"
  /\ InCatalog(server, c.name)
  /\ TypeOf(RawArgs(c.arguments)["query"]) = "string"
  /\ OtherwiseValid(c.name, RawArgs(c.arguments), "limit")

\* C7: get_station_info with a string query rejects limit 51, accepts limit
\* 50, and with no limit is accepted and asks upstream for limit 10.
C7_StationInfoLimit ==
  \A id \in CallIds :
    LET c == calls[id]
        bag == RawArgs(c.arguments) IN
    StationInfoCall(c) =>
      /\ bag["limit"] = N(51) => (Rejected(c) /\ c.requests = <<>>)
      /\ bag["limit"] = N(50) =>
           (Accepted(c) /\ Len(c.requests) = 1 /\ c.requests[1].params["limit"] = N(50))
      /\ bag["limit"] = Undef =>
           /\ Accepted(c)
           /\ Len(c.requests) = 1
           /\ c.requests[1].path = ENDPOINTS.STATIONS
           /\ c.requests[1].params["limit"] = N(10)

\* C7's case: a station search without a limit went upstream.
C7_Witness ==
  \E id \in CallIds :
    /\ StationInfoCall(calls[id])
    /\ RawArgs(calls[id].arguments)["limit"] = Undef
    /\ Len(calls[id].requests) = 1

\* The upstream request of the call failed with a non-2xx response whose
\* body has a message field (a string).
HttpFailureWithMessage(c) ==
  /\ c.outcome # NoOutcome /\ ~c.outcome.ok
  /\ IsAxiosError(c.outcome.error)
  /\ c.outcome.error.hasResponse
  /\ c.outcome.error.dataMessage.kind = "string"

\* C8: when the upstream answers a non-success status with a message in its
\* body, the handler returns isError=true and the text holds that message.
C8_UpstreamMessageInText ==
  \A id \in CallIds :
    LET c == calls[id] IN
    HttpFailureWithMessage(c) =>
      /\ ReturnedError(c)
      /\ TextContains(c.envelope.content[1].text, c.outcome.error.dataMessage.str)

\* C8's case: a 500 with body {message: "server error"} has been handled.
C8_Witness ==
  \E id \in CallIds :
    /\ HttpFailureWithMessage(calls[id])
    /\ calls[id].outcome.error.dataMessage = S("server error")
    /\ Finished(calls[id])

\* JSON.parse of the text of the call's envelope.
Payload(c) == JSONparse(c.envelope.content[1].text)

\* C10: get_current_time_in_rfc3339 returns a success envelope whose payload
\* has a timestamp field and the timezone label 'Europe/Amsterdam'; it runs
\* no validator and issues no upstream request, whatever the arguments.
C10_CurrentTime ==
  \A id \in CallIds :
    LET c == calls[id] IN
    (Started(c) /\ c.name = "get_current_time_in_rfc3339" /\ InCatalog(server, c.name)) =>
      /\ ReturnedSuccess(c)
      /\ Payload(c).result = "value"
      /\ HasMember(Payload(c).v, <<"datetime">>)
      /\ \E now \in Instants :
           Member(Payload(c).v.members, <<"datetime">>) = JStr(<<toISOString(now)>>)
      /\ Member(Payload(c).v.members, <<"timezone">>) = JStr(<<"Europe/Amsterdam">>)
      /\ c.validator = "none"
      /\ c.requests = <<>>

\* C10's case: the tool was called with arguments it does not declare.
C10_Witness ==
  \E id \in CallIds :
    /\ calls[id].name = "get_current_time_in_rfc3339"
    /\ server = "NSServer"
    /\ calls[id].pc = "returned"
    /\ RawArgs(calls[id].arguments)["extra"] # Undef

Validated == probe.done /\ probe.fn \in Validators

\* C11: every validator returns false when its input is not a plain object:
\* null, an array, or a primitive (string, number, boolean, undefined).
C11_NonObjectsRejected ==
  (Validated /\ probe.args.kind \in NonObjectKinds) => probe.completion = Returned(FALSE)

\* C12: every validator is total: for every input (null, undefined, arrays,
\* primitives, objects with ill-typed fields) it returns true or false and
\* never throws.
C12_ValidatorsNeverThrow == Validated => ~probe.completion.threw

\* The enum-constrained field of a validator's tool and its declared literals.
EnumValidators == {"isValidDisruptionsArgs", "isValidDeparturesArgs", "isValidArrivalsArgs"}
EnumField(v) == IF v = "isValidDisruptionsArgs" THEN "type" ELSE "lang"
EnumLiterals(v) == IF v = "isValidDisruptionsArgs" THEN {"MAINTENANCE", "DISRUPTION"} ELSE {"nl", "en"}

\* C13: an enum-constrained string field is accepted only when it equals one
\* of its declared literals, case-sensitively: type of get_disruptions is
\* 'MAINTENANCE' or 'DISRUPTION', lang of get_departures and get_arrivals is
\* 'nl' or 'en'; any other value of the field makes validation fail.
C13_EnumsExact ==
  (Validated /\ probe.fn \in EnumValidators /\ probe.args.kind = "object") =>
    LET v == probe.args.flds[EnumField(probe.fn)] IN
    (v # Undef /\ v \notin {S(l) : l \in EnumLiterals(probe.fn)})
      => probe.completion = Returned(FALSE)

\* C13 for the two validators that list their literals.
C13_DisruptionsAndArrivalsEnums ==
  (Validated /\ probe.fn \in {"isValidDisruptionsArgs", "isValidArrivalsArgs"}
   /\ probe.args.kind = "object") =>
    LET v == probe.args.flds[EnumField(probe.fn)] IN
    (v # Undef /\ v \notin {S(l) : l \in EnumLiterals(probe.fn)})
      => probe.completion = Returned(FALSE)

\* The defaults the tool schemas and the tool table declare: field and value.
DeclaredDefaults(name) ==
  CASE name \in {"get_departures", "get_arrivals"} ->
         {<<"maxJourneys", N(40)>>, <<"lang", S("nl")>>}
    [] name = "get_travel_advice" -> {<<"searchForArrival", B(FALSE)>>}
    [] name = "get_station_info" ->
         {<<"includeNonPlannableStations", B(FALSE)>>, <<"limit", N(10)>>}
    [] OTHER -> {}

\* The call omits the field of the default d, is accepted and sends the
\* default upstream.
DefaultSupplied(c, d) ==
  /\ Accepted(c)
  /\ Len(c.requests) = 1
  /\ c.requests[1].params[d[1]] = d[2]

\* C14: when a caller omits a field that has a declared default, the call is
\* accepted and the dispatcher sends the default upstream: maxJourneys 40 and
\* lang 'nl' for get_departures and get_arrivals, searchForArrival false for
\* get_travel_advice, includeNonPlannableStations false and limit 10 for
\* get_station_info.
C14_DefaultsSupplied ==
  server = "NSServer" =>
    \A id \in CallIds :
      LET c == calls[id]
          bag == RawArgs(c.arguments) IN
      Started(c) =>
        \A d \in DeclaredDefaults(c.name) :
          (bag[d[1]] = Undef /\ Validates(c.name, bag)) => DefaultSupplied(c, d)

\* C14 for get_station_info, whose service method holds the defaults.
C14_StationInfoDefaults ==
  server = "NSServer" =>
    \A id \in CallIds :
      LET c == calls[id]
          bag == RawArgs(c.arguments) IN
      (Started(c) /\ c.name = "get_station_info") =>
        \A d \in DeclaredDefaults(c.name) :
          (bag[d[1]] = Undef /\ Validates(c.name, bag)) => DefaultSupplied(c, d)

\* What C15 says of one call: at most one upstream request; once accepted,
\* exactly one; and once finished, one ResponseEnvelope returned (none before).
OneRequestOneEnvelope(c) ==
  /\ Len(c.requests) <= 1
  /\ Accepted(c) => Len(c.requests) = 1
  /\ c.pc = "pending" => c.envelope = NoEnvelope
  /\ (Accepted(c) /\ c.pc # "pending") => (c.pc = "returned" /\ IsResponseEnvelope(c.envelope))

\* C15: every call whose arguments pass validation for an upstream-backed
\* tool issues exactly one upstream request and returns exactly one
\* ResponseEnvelope; an upstream failure is never retried.
C15_OneRequestOneEnvelope ==
  server = "NSServer" => \A id \in CallIds : OneRequestOneEnvelope(calls[id])

\* C15's case: an accepted call whose upstream request failed has returned.
C15_Witness ==
  /\ server = "NSServer"
  /\ \E id \in CallIds :
       /\ Accepted(calls[id])
       /\ calls[id].outcome # NoOutcome /\ ~calls[id].outcome.ok
       /\ calls[id].pc = "returned"
       /\ Len(calls[id].requests) = 1

\* C17: formatError returns an envelope with isError=true for every input
\* and never throws: an McpError gives its message as text, an AxiosError a
\* text that starts with 'NS API error: ', any other Error its message, and a
\* value that is no Error (string, null, undefined, plain object) the text
\* 'Unknown error occurred'.
C17_FormatErrorTotal ==
  (probe.done /\ probe.fn = "formatError") =>
    LET error == probe.thrown
        text == probe.envelope.content[1].text IN
    /\ ~probe.completion.threw
    /\ IsResponseEnvelope(probe.envelope)
    /\ probe.envelope.isError = B(TRUE)
    /\ IsMcpError(error) => text = error.message
    /\ IsAxiosError(error) => (Len(text) >= 2 /\ text[1] = "NS API error: ")
    /\ error.class = "Error" => text = error.message
    /\ ~IsError(error) => text = <<"Unknown error occurred">>

\* C17's case: a plain object with a message of its own, which is no Error,
\* went through formatError.
C17_Witness ==
  /\ probe.done
  /\ probe.thrown = ThrownValue("object", <<"boom">>)

UniqueNames(tools) == \A i, j \in DOMAIN tools : i # j => tools[i].name # tools[j].name

\* C16: the catalog the list-tools handler returns is static and has unique
\* names: every invocation returns the same ordered sequence of descriptors,
\* whatever tool calls were handled before it, and no two descriptors share
\* a name.
C16_CatalogStatic ==
  \A l1, l2 \in listed :
    /\ l1.tools = l2.tools
    /\ Len(l1.tools) >= 1
    /\ UniqueNames(l1.tools)

\* C16's case: the catalog was listed before any tool call and again after
\* a tool call was handled.
C16_Witness ==
  /\ \E l1, l2 \in listed : ~l1.afterCalls /\ l2.afterCalls
  /\ \E id \in CallIds : Finished(calls[id])

\* The call stands where it would stand had it been handled alone: its
\* progress, envelope and error are those its own name, arguments and (once
\* settled) own upstream outcome give.
HandledAlone(c) ==
  \E now \in Instants :
    LET first == HandlerCallTool(server, c.name, c.arguments, now)
        final == IF first.kind = "await" /\ c.outcome # NoOutcome
                 THEN HandlerResume(server, first.validator, c.outcome)
                 ELSE first IN
    /\ c.pc = PcAfter(final)
    /\ c.envelope = final.envelope
    /\ c.error = final.error
    /\ c.validator = first.validator
    /\ c.requests = IF first.kind = "await" THEN <<first.request>> ELSE <<>>

C18_StepsTouchOneCall ==
  [][\A i, j \in CallIds : (i # j /\ calls'[i] # calls[i]) => calls'[j] = calls[j]]_vars

C19_ExitAfterClose ==
  (proc.exited /\ proc.pc = "serving") =>
    \E k \in DOMAIN proc.closes :
      proc.closes[k] = (IF proc.exitCode = 0 THEN "done" ELSE "failed")

\* C19's case: the process exited on SIGINT while an upstream request was pending.
C19_Witness ==
  /\ proc.exited /\ proc.exitCode = 0
  /\ \E id \in CallIds : calls[id].pc = "pending"

\* C20: when NS_API_KEY is missing or empty, startup fails before the
\* handlers are registered and before the transport is connected, so no
\* list-tools or call-tool request is ever served.
C20_NoKeyNoService ==
  proc.key \in {Undef, S("")} =>
    /\ proc.pc \in {"boot", "failed"}
    /\ ~proc.handlers
    /\ ~proc.connected
    /\ listed = {}
    /\ \A id \in CallIds : calls[id] = Idle

\* C20's case: the process was started with an empty key and its startup failed.
C20_Witness == proc.key = S("") /\ proc.pc = "failed" /\ proc.exited

\* A started get_disruptions call whose raw isActive is present and no
\* boolean, in a bag that is valid but for that field.
NonBooleanIsActive(c) ==
  /\ Started(c)
  /\ c.name = "get_disruptions"
  /\ InCatalog(server, c.name)
  /\ RawArgs(c.arguments)["isActive"] # Undef
  /\ TypeOf(RawArgs(c.arguments)["isActive"]) # "boolean"
  /\ OtherwiseValid(c.name, RawArgs(c.arguments), "isActive")

\* What the claim says the validator and the upstream client get for a raw
\* isActive: true for 'true', 'TRUE' and 'True', false for every other value.
NormalisedIsActive(v) == B(v \in {S("true"), S("TRUE"), S("True")})

IsActiveNormalised(c) ==
  NonBooleanIsActive(c) =>
    /\ Accepted(c)
    /\ Len(c.requests) = 1
    /\ c.requests[1].params["isActive"] = NormalisedIsActive(RawArgs(c.arguments)["isActive"])

\* C21: for get_disruptions a raw isActive that is present and no boolean is
\* replaced, before the validator runs, by (lower-cased string form =
\* 'true'): 'true', 'TRUE', 'True' become true, 'false', 'yes', 0 become
\* false; the validator accepts the bag and the boolean goes upstream.
C21_IsActiveNormalised == \A id \in CallIds : IsActiveNormalised(calls[id])

\* C21 restricted to DisruptionsServer, whose handler builds args with
\* String(rawArgs.isActive).toLowerCase() === 'true'.
C21_DisruptionsServerNormalises ==
  server = "DisruptionsServer" => \A id \in CallIds : IsActiveNormalised(calls[id])

C21_DisruptionsServerWitness ==
  /\ server = "DisruptionsServer"
  /\ \E id \in CallIds :
       /\ NonBooleanIsActive(calls[id])
       /\ RawArgs(calls[id].arguments)["isActive"] = S("True")
       /\ calls[id].pc = "returned"

\* The properties each upstream-backed tool declares in its inputSchema.
DeclaredFields(name) ==
  CASE name = "get_disruptions" -> {"isActive", "type"}
    [] name = "get_travel_advice" -> {"fromStation", "toStation", "dateTime", "searchForArrival"}
    [] name \in {"get_departures", "get_arrivals"} ->
         {"station", "uicCode", "dateTime", "maxJourneys", "lang"}
    [] name = "get_ovfiets" -> {"stationCode"}
    [] name = "get_station_info" -> {"query", "includeNonPlannableStations", "limit"}
    [] OTHER -> {}

\* The name a field of the arguments has in the query.
QueryParam(f) ==
  CASE f = "stationCode" -> "station_code"
    [] f = "query" -> "q"
    [] OTHER -> f

\* The path each tool's service method requests.
ToolEndpoint(name) ==
  CASE name = "get_disruptions" -> ENDPOINTS.DISRUPTIONS
    [] name = "get_travel_advice" -> ENDPOINTS.TRIPS
    [] name = "get_departures" -> ENDPOINTS.DEPARTURES
    [] name = "get_ovfiets" -> ENDPOINTS.OVFIETS
    [] name = "get_station_info" -> ENDPOINTS.STATIONS
    [] name = "get_arrivals" -> ENDPOINTS.ARRIVALS
    [] OTHER -> ""

\* The field f of an accepted call is in the query as the claim says: with
\* the supplied value when supplied, left out when absent and without a
\* declared default.
FieldInQuery(c, f) ==
  LET v == RawArgs(c.arguments)[f]
      sent == c.requests[1].params[QueryParam(f)] IN
  /\ v # Undef => sent = v
  /\ (v = Undef /\ \A d \in DeclaredDefaults(c.name) : d[1] # f) => sent = Undef

\* An accepted call: one request, to the tool's path, and nothing in the
\* query but declared fields.
RequestOfTool(c) ==
  /\ Len(c.requests) >= 1
  /\ c.requests[1].path = ToolEndpoint(c.name)
  /\ \A p \in ParamNames :
       c.requests[1].params[p] # Undef => \E f \in DeclaredFields(c.name) : QueryParam(f) = p

\* C22: for every upstream-backed tool the query is built from the named
\* fields of the validated arguments: every declared field the caller
\* supplied (uicCode of get_departures and get_arrivals included) is in the
\* query with the supplied value, every absent field without a default is
\* left out, and the request goes to the tool's own path.
C22_QueryFromFields ==
  server = "NSServer" =>
    \A id \in CallIds :
      LET c == calls[id] IN
      Accepted(c) =>
        /\ RequestOfTool(c)
        /\ \A f \in DeclaredFields(c.name) : FieldInQuery(c, f)

\* C22 for every field but the uicCode of get_departures.
C22_QueryFromFieldsButDeparturesUicCode ==
  server = "NSServer" =>
    \A id \in CallIds :
      LET c == calls[id] IN
      Accepted(c) =>
        /\ RequestOfTool(c)
        /\ \A f \in DeclaredFields(c.name) :
             (c.name = "get_departures" /\ f = "uicCode") \/ FieldInQuery(c, f)

\* An accepted get_arrivals call that sends its uicCode upstream.
C22_ArrivalsWitness ==
  /\ server = "NSServer"
  /\ \E id \in CallIds :
       /\ Accepted(calls[id])
       /\ calls[id].name = "get_arrivals"
       /\ calls[id].requests[1].params["uicCode"] = S("8400058")

\* A call whose upstream request failed with an AxiosError (a non-2xx
\* response, or no response at all).
UpstreamFailure(c) == c.outcome # NoOutcome /\ ~c.outcome.ok /\ IsAxiosError(c.outcome.error)

\* The message the claim prefers: the body's when present and non-empty,
\* else the error's own when it has one, else the literal.
PreferredMessage(error) ==
  IF error.hasResponse /\ error.dataMessage.kind = "string" /\ error.dataMessage.str # ""
  THEN <<error.dataMessage.str>>
  ELSE IF Len(error.message) > 0 THEN error.message
  ELSE <<"Unknown error">>

\* C23: for an upstream failure the returned text is 'NS API error: '
\* followed by the message of the response body when present and non-empty,
\* else the transport error's own message, else 'Unknown error'; a failure
\* without any response gives isError = true with the transport message.
C23_ErrorTextPreference ==
  \A id \in CallIds :
    LET c == calls[id] IN
    UpstreamFailure(c) =>
      /\ ReturnedError(c)
      /\ c.envelope.content[1].text = <<"NS API error: ">> \o PreferredMessage(c.outcome.error)

\* C23's case: a failure without a response (DNS) has returned the
\* envelope that carries the transport message.
C23_Witness ==
  \E id \in CallIds :
    /\ UpstreamFailure(calls[id])
    /\ ~calls[id].outcome.error.hasResponse
    /\ calls[id].envelope.content[1].text =
         <<"NS API error: ", "getaddrinfo ENOTFOUND gateway.apiportal.ns.nl">>

\* The envelope has the shape of a ResponseEnvelope whose text is a string.
WellShaped(e) ==
  /\ DOMAIN e = {"isError", "content"}
  /\ Len(e.content) = 1
  /\ DOMAIN e.content[1] = {"type", "text"}
  /\ e.content[1].type = "text"
  /\ \A i \in DOMAIN e.content[1].text : e.content[1].text[i] \in STRING

\* C24: every envelope the call-tool handler returns has exactly one
\* content item, of type 'text' with a string text; isError is true exactly
\* when the call failed (unknown tool, invalid arguments, upstream failure,
\* other exception) and absent or false exactly when it succeeded.
C24_EnvelopeShape ==
  server = "NSServer" =>
    \A id \in CallIds :
      LET c == calls[id] IN
      c.pc = "returned" =>
        /\ WellShaped(c.envelope)
        /\ c.envelope.isError = B(TRUE) <=> CallFailed(c)
        /\ c.envelope.isError \in {Undef, B(FALSE)} <=> ~CallFailed(c)

\* C24's case: the awaited service call rejected with an Error that is no
\* AxiosError, and the handler returned an error envelope with its message.
C24_Witness ==
  /\ server = "NSServer"
  /\ \E id \in CallIds :
       /\ calls[id].pc = "returned"
       /\ calls[id].outcome = Failure(OtherError(<<"boom">>))
       /\ calls[id].envelope = Envelope(B(TRUE), <<"boom">>)

\* The name is one that list-tools advertises.
Advertised(name) ==
  \E i \in DOMAIN ListToolsResult(server) : ListToolsResult(server)[i].name = name

\* The validator of each upstream-backed tool.
ValidatorOf(name) ==
  CASE name = "get_disruptions" -> "isValidDisruptionsArgs"
    [] name = "get_travel_advice" -> "isValidTravelAdviceArgs"
    [] name = "get_departures" -> "isValidDeparturesArgs"
    [] name = "get_ovfiets" -> "isValidOVFietsArgs"
    [] name = "get_station_info" -> "isValidStationInfoArgs"
    [] name = "get_arrivals" -> "isValidArrivalsArgs"
    [] OTHER -> "none"

\* The call was routed to the tool of its name: its validator ran, and an
\* accepted call went to the tool's upstream operation (the clock tool has
\* neither and answers at once).
RoutedToTool(c) ==
  /\ c.validator = ValidatorOf(c.name)
  /\ IF ValidatorOf(c.name) = "none" THEN ReturnedSuccess(c)
     ELSE Accepted(c) => (Len(c.requests) >= 1 /\ c.requests[1].path = ToolEndpoint(c.name))

\* C25: the dispatcher matches the name by exact, case-sensitive equality
\* and agrees with the catalog: a call is routed to a tool's validator and
\* upstream operation if and only if its name is one list-tools advertises;
\* every other name ('GET_DISRUPTIONS', 'get_prices') gets the 'unknown
\* tool' error envelope.
C25_CaseSensitiveDispatch ==
  server = "NSServer" =>
    \A id \in CallIds :
      LET c == calls[id] IN
      Started(c) =>
        /\ Advertised(c.name) => (RoutedToTool(c) /\ ~UnknownToolRejected(c))
        /\ ~Advertised(c.name) => (UnknownToolRejected(c) /\ c.validator = "none")

\* C25's case: a call of 'GET_DISRUPTIONS' with a bag that get_disruptions
\* accepts got the 'unknown tool' envelope.
C25_Witness ==
  /\ server = "NSServer"
  /\ \E id \in CallIds :
       /\ calls[id].name = "GET_DISRUPTIONS"
       /\ RawArgs(calls[id].arguments)["type"] = S("DISRUPTION")
       /\ UnknownToolRejected(calls[id])

\* What C26 says of one call: a request only once the validator returned
\* true; a rejected call has no request and has returned the error
\* envelope that says 'Invalid arguments for' and names the tool.
ValidationPrecedesUpstream(c) ==
  /\ Len(c.requests) > 0 => Accepted(c)
  /\ Rejected(c) =>
       /\ RejectedByValidation(c)
       /\ TextContains(c.envelope.content[1].text, "Invalid arguments for ")
       /\ TextContains(c.envelope.content[1].text, c.name)

\* C26: validation precedes the upstream call: a request is issued for a
\* call only after its validator returned true; a call whose arguments fail
\* validation issues no request and returns an error envelope that carries
\* the 'invalid parameters' classification and names the tool.
C26_ValidationPrecedesUpstream == \A id \in CallIds : ValidationPrecedesUpstream(calls[id])

\* C26 restricted to NSServer, whose catch turns the McpError into an envelope.
C26_NSServerValidationPrecedes ==
  server = "NSServer" => \A id \in CallIds : ValidationPrecedesUpstream(calls[id])

\* C26's order alone, on both servers: no step issues a request for a call
\* whose validator has not returned true, and a rejected call never gets one.
C26_RequestsOnlyAfterValidation ==
  [][\A id \in CallIds :
       /\ Len(calls'[id].requests) > Len(calls[id].requests) => Accepted(calls'[id])
       /\ Rejected(calls[id]) => calls'[id].requests = <<>>]_vars

C26_NSServerWitness ==
  /\ server = "NSServer"
  /\ \E id \in CallIds :
       /\ calls[id].name = "get_arrivals"
       /\ Rejected(calls[id])
       /\ calls[id].envelope = Envelope(B(TRUE), <<"Invalid arguments for ", "get_arrivals">>)

\* The arguments without the fields the tool does not declare.
DeclaredOnly(arguments) ==
  IF arguments.present THEN Arguments([arguments.flds EXCEPT !["extra"] = Undef])
  ELSE arguments

\* The requests a first step of the handler issues.
RequestsOf(step) == IF step.kind = "await" THEN <<step.request>> ELSE <<>>

\* The call was validated, and issued the requests, exactly as the call with
\* the same name and the same declared fields but no extra field is.
ExtraFieldsIgnored(c) ==
  LET twin == HandlerCallTool(server, c.name, DeclaredOnly(c.arguments), 0) IN
  /\ c.validator = twin.validator
  /\ c.valid = twin.valid
  /\ c.outcome = NoOutcome => (c.pc = "pending" <=> twin.kind = "await")
  /\ Len(c.requests) >= 1 => (twin.kind = "await" /\ c.requests[1] = twin.request)
  /\ \A i \in DOMAIN c.requests : \A p \in ParamNames :
       c.requests[i].params[p] # Undef => \E f \in DeclaredFields(c.name) : QueryParam(f) = p

\* C27: undeclared extra fields of the bag do not influence a call:
\* a valid bag stays valid with extra keys, the query holds only declared
\* parameters, and two calls that agree on all declared fields issue the
\* same upstream request.
C27_ExtraFieldsIgnored ==
  \A id \in CallIds : Started(calls[id]) => ExtraFieldsIgnored(calls[id])

\* C27's case: on each server a get_disruptions call with an undeclared
\* field was accepted and its query has the declared fields only.
C27_Witness ==
  \E id \in CallIds :
    /\ calls[id].name = "get_disruptions"
    /\ RawArgs(calls[id].arguments)["extra"] = S("x")
    /\ RawArgs(calls[id].arguments)["type"] = S("DISRUPTION")
    /\ Accepted(calls[id])
    /\ calls[id].requests[1].params["type"] = S("DISRUPTION")

\* A non-empty string.
NonEmptyString(v) == TypeOf(v) = "string" /\ v.str # ""

\* A started get_arrivals call whose bag is valid in the fields other than
\* station and uicCode.
ArrivalsCall(c) ==
  /\ Started(c)
  /\ c.name = "get_arrivals"
  /\ Validates("get_arrivals",
               [RawArgs(c.arguments) EXCEPT !["station"] = S("ASD"), !["uicCode"] = Undef])

\* C28: for get_arrivals the either-or rule goes by truthiness: a bag with
\* both station and uicCode as non-empty strings is accepted, and a bag
\* whose station is the empty string and whose uicCode is absent or empty
\* is rejected.
C28_ArrivalsTruthiness ==
  server = "NSServer" =>
    \A id \in CallIds :
      LET c == calls[id]
          bag == RawArgs(c.arguments) IN
      ArrivalsCall(c) =>
        /\ (NonEmptyString(bag["station"]) /\ NonEmptyString(bag["uicCode"])) => Accepted(c)
        /\ (bag["station"] = S("") /\ bag["uicCode"] \in {Undef, S("")}) => Rejected(c)

\* C28's case: get_arrivals with {station: ''} was rejected.
C28_Witness ==
  /\ server = "NSServer"
  /\ \E id \in CallIds :
       /\ ArrivalsCall(calls[id])
       /\ OnlyField(RawArgs(calls[id].arguments), "station")
       /\ RawArgs(calls[id].arguments)["station"] = S("")
       /\ Rejected(calls[id])
       /\ calls[id].pc = "returned"

\* The calls of getInstance that returned, and those that threw.
Returns(cfg) == {k \in DOMAIN cfg.results : ~cfg.results[k].threw}
Throws(cfg) == {k \in DOMAIN cfg.results : cfg.results[k].threw}

\* C29: Config.getInstance is idempotent: every successful call returns the
\* same instance, the constructor has run to its end at most once, the
\* values of nsApiKey, serverName and serverVersion never change after
\* construction; when construction throws for want of NS_API_KEY no
\* instance is stored and a later getInstance constructs again.
C29_GetInstanceIdempotent ==
  /\ \A j, k \in Returns(config) : config.results[j].instance = config.results[k].instance
  /\ \A k \in Returns(config) : config.results[k].instance = config.instance
  /\ config.constructed <= 1
  /\ Cardinality(config.reads) <= 1
  /\ \A r \in config.reads :
       /\ r.nsApiKey = nsApiKey(config.instance)
       /\ Truthy(r.nsApiKey)
       /\ r.serverName = "ns-disruptions-server"
       /\ r.serverVersion = "1.0.0"
  /\ Returns(config) = {} => config.instance = NoInstance
  /\ \A j \in Throws(config) : \A k \in Returns(config) : j < k
  /\ config.attempts = Cardinality(Throws(config)) + config.constructed

\* C29's case: getInstance threw without a key, a later call constructed
\* the instance, a call after that returned the same one although the key
\* in the environment has changed since, and its getters were read.
C29_Witness ==
  /\ Len(config.results) = 3
  /\ config.results[1].threw
  /\ ~config.results[2].threw
  /\ config.results[3] = config.results[2]
  /\ config.env # nsApiKey(config.instance)
  /\ config.reads # {}

\* The call needs no upstream request: a name outside the catalog, rejected
\* arguments, or the clock tool.
NeedsNoUpstream(c) ==
  Started(c) /\ (~InCatalog(server, c.name) \/ Rejected(c) \/ c.name = "get_current_time_in_rfc3339")

\* The call has received its envelope.
Answered(c) == c.pc = "returned" /\ IsResponseEnvelope(c.envelope)

\* C30: every call request eventually receives exactly one envelope,
\* provided every issued upstream request eventually completes or fails;
\* a call that needs no upstream request is answered without waiting for
\* any upstream response, and an answered call keeps its one envelope
\* whatever happens to the other calls.
C30_EveryCallAnswered ==
  /\ \A id \in CallIds : Started(calls[id]) ~> Answered(calls[id])
  /\ [](\A id \in CallIds :
          NeedsNoUpstream(calls[id]) => (Answered(calls[id]) /\ calls[id].requests = <<>>))
  /\ [][\A id \in CallIds : Answered(calls[id]) => calls'[id] = calls[id]]_vars

\* C30's case: the first call still waits for its upstream response while a
\* later call that needs none has its envelope.
C30_Witness ==
  /\ server = "NSServer"
  /\ MaxCalls >= 2
  /\ calls[1].pc = "pending" /\ calls[1].outcome = NoOutcome
  /\ NeedsNoUpstream(calls[2]) /\ Answered(calls[2])

====
